---- MODULE Spec2Model ----
(***************************************************************************)
(* Model of the zen-nix editor extension (src/src/extension.ts): the       *)
(* diagnostic orchestrator (scheduleDiagnostics, the debounce timer, the   *)
(* external parser check), the parse-check masking passes, and the         *)
(* formatting provider (mask, external formatter, unwrap, restore).        *)
(*                                                                         *)
(* Texts are strings; positions inside the operators are 1-based and are   *)
(* converted to the editor's 0-based lines and columns where a diagnostic  *)
(* is built.                                                               *)
(***************************************************************************)
EXTENDS Integers, Sequences, FiniteSets, TLC

VARIABLES
    documents,          \* the editor's documents: document -> current text
    collection,         \* the DiagnosticCollection: document -> diagnostics
    diagnosticTimeout,  \* the module-level timer handle (0: undefined)
    timers,             \* the runtime's armed timers, each with its closure
    processes,          \* the nix-instantiate processes not yet closed
    activated,          \* whether activate() has run
    calls,              \* how many times scheduleDiagnostics has been called
    latest,             \* history: document -> its latest schedule call
    superseded,         \* history: the calls whose timer was cleared unfired
    spawned,            \* history: the calls whose check started, in order
    checked,            \* history: the calls whose check closed and published
    source,             \* history: document -> the publish that wrote its set
    exitCode,           \* history: the exit status of the last parser process closed
    nix,                \* one run of runNixCompilerChecks' masking, pass by pass
    fmt,                \* one format request (provideDocumentFormattingEdits)
    scan,               \* one run of runStaticHeuristics, line by line
    chk                 \* one run of runTypeChecks, declaration by declaration

\* ------------------------------------------------------------------ bounds

\* How many fragments an input text of the masking specifications is made of.
MaxFrags == 3

\* How many fragments a document of a format request is made of.
MaxFormatFrags == 2

\* How many times scheduleDiagnostics is called in a run.
MaxCalls == 2

\* How many fragments a document of a scanner run is made of.
MaxScanFrags == 3

\* How many fragments a document of a checker run is made of.
MaxCheckFrags == 3

\* ------------------------------------------------------- string primitives

Min(S) == CHOOSE x \in S : \A y \in S : x <= y

Max(S) == CHOOSE x \in S : \A y \in S : x >= y

\* The leftmost of the positions S where a search can match, 0 for no match.
First(S) == IF S = {} THEN 0 ELSE Min(S)

\* A const of the source: the value v is computed once and Op, the code that
\* follows the declaration, is applied to it.
Bind(v, Op(_)) == Op(v)

\* s[i-1] of the source (1-based here); "" stands for undefined.
Ch(s, i) == IF i >= 1 /\ i <= Len(s) THEN SubSeq(s, i, i) ELSE ""

\* s.substring(i-1, j-1): the characters at 1-based positions i .. j-1.
Sub(s, i, j) == IF j <= i THEN "" ELSE SubSeq(s, i, j - 1)

\* Whether lit occurs in s at position i.
MatchStr(s, i, lit) ==
    /\ i >= 1
    /\ i + Len(lit) - 1 <= Len(s)
    /\ SubSeq(s, i, i + Len(lit) - 1) = lit

\* The character class [a-zA-Z0-9_-].
IdChars ==
    { "a", "b", "c", "d", "e", "f", "g", "h", "i", "j", "k", "l", "m",
      "n", "o", "p", "q", "r", "s", "t", "u", "v", "w", "x", "y", "z",
      "A", "B", "C", "D", "E", "F", "G", "H", "I", "J", "K", "L", "M",
      "N", "O", "P", "Q", "R", "S", "T", "U", "V", "W", "X", "Y", "Z",
      "0", "1", "2", "3", "4", "5", "6", "7", "8", "9", "_", "-" }

\* The character class \w, which decides a word boundary \b.
WordChars == IdChars \ { "-" }

\* The character class \d.
Digits == { "0", "1", "2", "3", "4", "5", "6", "7", "8", "9" }

\* The character class \s (the members a document of the model can hold).
WsChars == { " ", "\t", "\n", "\r", "\f" }

\* The end of the longest run of characters of class C that starts at i:
\* the first position at or after i whose character is not in C.
RunEnd(s, i, C) ==
    CHOOSE j \in i .. (Len(s) + 1) :
        /\ \A k \in i .. (j - 1) : Ch(s, k) \in C
        /\ Ch(s, j) \notin C

WsEnd(s, i) == RunEnd(s, i, WsChars)

IdEnd(s, i) == RunEnd(s, i, IdChars)

RECURSIVE Spaces(_)
\* " ".repeat(n)
Spaces(n) ==
    IF n <= 0 THEN ""
    ELSE IF n = 1 THEN " "
    ELSE Spaces(n \div 2) \o Spaces(n - (n \div 2))

\* String.prototype.trim
Trim(s) ==
    LET a == WsEnd(s, 1)
    IN  IF a > Len(s) THEN ""
        ELSE LET b == Max({ k \in a .. Len(s) : Ch(s, k) \notin WsChars })
             IN  SubSeq(s, a, b)

\* String.prototype.trimEnd
TrimEnd(s) ==
    LET K == { k \in 1 .. Len(s) : Ch(s, k) \notin WsChars }
    IN  IF K = {} THEN "" ELSE SubSeq(s, 1, Max(K))

\* s.indexOf(lit) + 1 searched from position i; 0 when lit does not occur.
IndexOf(s, lit, i) == First({ k \in i .. Len(s) : MatchStr(s, k, lit) })

\* The number of line breaks of s.
CountNewlines(s) == Cardinality({ k \in 1 .. Len(s) : Ch(s, k) = "\n" })

\* TextDocument.lineCount: an empty document has one line.
LineCount(s) == CountNewlines(s) + 1

RECURSIVE Concat(_)
\* The concatenation of a sequence of strings.
Concat(parts) ==
    IF parts = << >> THEN "" ELSE Head(parts) \o Concat(Tail(parts))

\* --------------------------------------------- the dialect's regular forms

\* The structural-node keywords of the masking regex.
NodeKeywords ==
    { "zmdl", "alias", "programs", "packages", "freeform", "group", "import",
      "needs" }

\* /_let\s+[a-zA-Z0-9_-]+\s*:\s*(?:\$type\.[a-zA-Z0-9_-]+|[a-zA-Z0-9_-]+)/
\* matched at i: the position after the match, 0 when there is none.
LetHeadEnd(s, i) ==
    IF ~MatchStr(s, i, "_let") THEN 0
    ELSE Bind(WsEnd(s, i + 4), LAMBDA b :
         Bind(IdEnd(s, b), LAMBDA c :
         Bind(WsEnd(s, c), LAMBDA d :
         Bind(WsEnd(s, d + 1), LAMBDA e :
             IF b > i + 4 /\ c > b /\ Ch(s, d) = ":"
             THEN IF MatchStr(s, e, "$type.") /\ IdEnd(s, e + 6) > e + 6
                  THEN IdEnd(s, e + 6)
                  ELSE IF IdEnd(s, e) > e THEN IdEnd(s, e) ELSE 0
             ELSE 0))))

\* The parse-check declaration regex: the head, an optional bracketed list
\* (lazy: up to the first "]" that "\s*=" follows) and "\s*=".
LetAssignEnd(s, i) ==
    Bind(LetHeadEnd(s, i), LAMBDA t :
        IF t = 0 THEN 0
        ELSE Bind(WsEnd(s, t), LAMBDA w :
                 IF Ch(s, w) = "["
                 THEN LET K == { k \in (w + 1) .. Len(s) :
                                   /\ Ch(s, k) = "]"
                                   /\ Ch(s, WsEnd(s, k + 1)) = "=" }
                      IN  IF K = {} THEN 0 ELSE WsEnd(s, Min(K) + 1) + 1
                 ELSE IF Ch(s, w) = "=" THEN w + 1 ELSE 0))

\* /\$[a-zA-Z0-9_.-]+/ matched at i (parse-check mode: dots included).
DottedVarEnd(s, i) ==
    LET e == RunEnd(s, i + 1, IdChars \cup { "." })
    IN  IF Ch(s, i) = "$" /\ e > i + 1 THEN e ELSE 0

\* /\$[a-zA-Z0-9_-]+/ matched at i (formatting mode).
VarEnd(s, i) ==
    LET e == IdEnd(s, i + 1)
    IN  IF Ch(s, i) = "$" /\ e > i + 1 THEN e ELSE 0

\* The first position at or after i that holds a parenthesis (or the end).
ParenAt(s, i) ==
    CHOOSE j \in i .. (Len(s) + 1) :
        /\ \A k \in i .. (j - 1) : Ch(s, k) \notin { "(", ")" }
        /\ Ch(s, j) \in { "(", ")", "" }

RECURSIVE NodeBodyEnd(_, _)
\* (?:[^)(]|\([^)(]*\))*\) from p: plain characters and one level of nested
\* parentheses up to the closing parenthesis.
NodeBodyEnd(s, p) ==
    IF Ch(s, ParenAt(s, p)) = ")" THEN ParenAt(s, p) + 1
    ELSE IF Ch(s, ParenAt(s, p)) = "("
            /\ Ch(s, ParenAt(s, ParenAt(s, p) + 1)) = ")"
         THEN NodeBodyEnd(s, ParenAt(s, ParenAt(s, p) + 1) + 1)
         ELSE 0

\* /\(\s*(zmdl|alias|...)(?:[^)(]|\([^)(]*\))*\)/ matched at i.
NodeEnd(s, i) ==
    IF Ch(s, i) # "(" THEN 0
    ELSE LET j == WsEnd(s, i + 1)
             kws == { kw \in NodeKeywords : MatchStr(s, j, kw) }
         IN  IF kws = {} THEN 0
             ELSE NodeBodyEnd(s, j + Len(CHOOSE kw \in kws : TRUE))

\* /!(\s*)\{/ matched at i.
BangEnd(s, i) ==
    LET w == WsEnd(s, i + 1)
    IN  IF Ch(s, i) = "!" /\ Ch(s, w) = "{" THEN w + 1 ELSE 0

\* /^\s*(\{!?|let\b|with\b|rec\b|\[|\(|"[^"]*"|'[^']*'|[a-zA-Z0-9_-]+\s*:)/
TopLevelForm(s) ==
    LET p == WsEnd(s, 1)
        c == Ch(s, p)
        kw(w) == MatchStr(s, p, w) /\ Ch(s, p + Len(w)) \notin WordChars
    IN  \/ c \in { "{", "[", "(" }
        \/ kw("let") \/ kw("with") \/ kw("rec")
        \/ c = "\"" /\ \E k \in (p + 1) .. Len(s) : Ch(s, k) = "\""
        \/ c = "'" /\ \E k \in (p + 1) .. Len(s) : Ch(s, k) = "'"
        \/ IdEnd(s, p) > p /\ Ch(s, WsEnd(s, IdEnd(s, p))) = ":"

\* ------------------------------------- parse-check masking (one per pass)

\* The filler of a masked declaration: "_", spaces, "=".
LetFiller(n) == "_" \o Spaces(n - 2) \o "="

\* The filler of a masked context variable.
VarFiller(n) == "v" \o Spaces(n - 1)

\* The filler of a masked structural node.
NodeFiller(n) == "n" \o Spaces(n - 1)

\* The filler of a shorthand action marker whose match has n characters.
BangFiller(n) ==
    IF n - 2 > 0 THEN "_=" \o Spaces(n - 3) \o "{" ELSE "_={"

\* The first position at or after i where a match of the pass starts, 0 when
\* there is none; and the position after that match.
PassEnd(stage, s, k) ==
    CASE stage = 1 -> LetAssignEnd(s, k)
      [] stage = 2 -> DottedVarEnd(s, k)
      [] stage = 3 -> NodeEnd(s, k)
      [] stage = 4 -> BangEnd(s, k)

PassFiller(stage, n) ==
    CASE stage = 1 -> LetFiller(n)
      [] stage = 2 -> VarFiller(n)
      [] stage = 3 -> NodeFiller(n)
      [] stage = 4 -> BangFiller(n)

NextMatch(stage, s, i) ==
    First({ k \in i .. Len(s) : PassEnd(stage, s, k) > 0 })

RECURSIVE MaskFrom(_, _, _)
\* masked.replace(regex, filler) with the g flag, from position i: matches
\* are taken left to right and do not overlap.
MaskFrom(stage, s, i) ==
    Bind(NextMatch(stage, s, i), LAMBDA m :
        IF m = 0 THEN Sub(s, i, Len(s) + 1)
        ELSE Bind(PassEnd(stage, s, m), LAMBDA e :
                 Sub(s, i, m) \o PassFiller(stage, e - m)
                   \o MaskFrom(stage, s, e)))

\* The four passes in the order runNixCompilerChecks applies them.
MaskPass(stage, s) == MaskFrom(stage, s, 1)

\* The masked text before wrapping.
MaskForParse(s) == MaskPass(4, MaskPass(3, MaskPass(2, MaskPass(1, s))))

\* The auto-wrap of both modes.
WrapText(s) == "{\n" \o s \o "\n}"

\* -------------------------------------------------- formatting-mode masking

\* String(n) of a non-negative integer.
DigitStr(d) == SubSeq("0123456789", d + 1, d + 1)

RECURSIVE ToStr(_)
ToStr(n) == IF n < 10 THEN DigitStr(n) ELSE ToStr(n \div 10) \o DigitStr(n % 10)

\* s.substring(a, b) with the source's 0-based indices: both are clamped to
\* 0 .. s.length and swapped when a > b.
JsSubstring(s, a, b) ==
    LET ca == IF a < 0 THEN 0 ELSE IF a > Len(s) THEN Len(s) ELSE a
        cb == IF b < 0 THEN 0 ELSE IF b > Len(s) THEN Len(s) ELSE b
        lo == IF ca <= cb THEN ca ELSE cb
        hi == IF ca <= cb THEN cb ELSE ca
    IN  IF lo = hi THEN "" ELSE SubSeq(s, lo + 1, hi)

\* Map.set on the insertion-ordered maskDict, a sequence of <<key, text>>:
\* a known key keeps its place, a new key is appended.
DictSet(dict, key, val) ==
    IF \E k \in 1 .. Len(dict) : dict[k][1] = key
    THEN [ k \in 1 .. Len(dict) |->
             IF dict[k][1] = key THEN << key, val >> ELSE dict[k] ]
    ELSE Append(dict, << key, val >>)

\* The placeholder maskMatch synthesizes for a prefix and the running maskId.
Placeholder(prefix, id) == "__ZEN_" \o prefix \o "_" \o ToStr(id) \o "__"

\* The characters the forward scan of the declaration masking reacts to.
ScanChars == { "\"", "[", "{", "(", "]", "}", ")", "=" }

\* The first 0-based index at or after i that holds such a character, or
\* s.length.
ScanNext(s, i) ==
    CHOOSE j \in i .. Len(s) :
        /\ \A k \in i .. (j - 1) : Ch(s, k + 1) \notin ScanChars
        /\ j = Len(s) \/ Ch(s, j + 1) \in ScanChars

\* The string state after the character at 0-based index j.
ScanInString(s, j, inString) ==
    IF Ch(s, j + 1) = "\"" /\ Ch(s, j) # "\\" THEN ~inString ELSE inString

\* The bracket depth after the character at 0-based index j.
ScanDepth(s, j, depth, inString) ==
    IF ScanInString(s, j, inString) THEN depth
    ELSE IF Ch(s, j + 1) \in { "[", "{", "(" } THEN depth + 1
    ELSE IF Ch(s, j + 1) \in { "]", "}", ")" } THEN depth - 1
    ELSE depth

RECURSIVE ScanAssign(_, _, _, _)
\* The forward scan of the declaration masking from 0-based index i: the index
\* of the first "=" at depth 0 outside a double-quoted string, or s.length.
\* Characters outside ScanChars change nothing and are skipped in one step.
ScanAssign(s, i, depth, inString) ==
    IF ScanNext(s, i) >= Len(s) THEN Len(s)
    ELSE IF /\ ~ScanInString(s, ScanNext(s, i), inString)
            /\ ScanDepth(s, ScanNext(s, i), depth, inString) = 0
            /\ Ch(s, ScanNext(s, i) + 1) = "="
         THEN ScanNext(s, i)
         ELSE ScanAssign(s, ScanNext(s, i) + 1,
                         ScanDepth(s, ScanNext(s, i), depth, inString),
                         ScanInString(s, ScanNext(s, i), inString))

\* One iteration of the declaration loop for the head matched at 0-based
\* index idx with 0-based end hend; st = [out, cur, dict, id].
MaskLetOne(s, idx, hend, st) ==
    Bind(st.out \o JsSubstring(s, st.cur, idx), LAMBDA out0 :
    Bind(ScanAssign(s, hend, 0, FALSE), LAMBDA i :
    Bind(JsSubstring(s, idx, hend), LAMBDA beforeArray :
    Bind(Trim(JsSubstring(s, hend, i)), LAMBDA middleContent :
    Bind(Placeholder("LET_S", st.id), LAMBDA startPlaceholder :
    Bind(Placeholder("LET_E", st.id), LAMBDA endPlaceholder :
    Bind(Placeholder("LET", st.id), LAMBDA placeholder :
        IF i < Len(s) /\ Ch(s, i + 1) = "="
        THEN IF Len(middleContent) > 0
             THEN [ out |-> out0 \o startPlaceholder \o " = " \o middleContent
                                 \o ";\n" \o endPlaceholder \o " =",
                    cur |-> i + 1,
                    dict |-> DictSet(DictSet(st.dict, startPlaceholder, beforeArray),
                                     endPlaceholder, "="),
                    id |-> st.id + 1 ]
             ELSE [ out |-> out0 \o placeholder \o " =",
                    cur |-> i + 1,
                    dict |-> DictSet(st.dict, placeholder,
                                     TrimEnd(JsSubstring(s, idx, i))),
                    id |-> st.id + 1 ]
        ELSE [ out |-> out0 \o beforeArray,
               cur |-> hend,
               dict |-> st.dict,
               id |-> st.id ])))))))

RECURSIVE MaskLetLoop(_, _, _)
\* letRegex.exec from 1-based position from, until no head matches; then the
\* rest of the text from currentIndex is appended.
MaskLetLoop(s, from, st) ==
    Bind(First({ k \in from .. Len(s) : LetHeadEnd(s, k) > 0 }), LAMBDA m :
        IF m = 0 THEN [ st EXCEPT !.out = @ \o JsSubstring(s, st.cur, Len(s)) ]
        ELSE Bind(LetHeadEnd(s, m), LAMBDA e :
                 MaskLetLoop(s, e, MaskLetOne(s, m - 1, e - 1, st))))

\* maskMatch, and the shorthand pass's own variant of it: the placeholder
\* (with the suffix the shorthand pass adds) replaces the match in the output
\* and is recorded with the match; st = [out, cur, dict, id].
PutMask(st, prefix, suffix, match) ==
    [ out |-> st.out \o Placeholder(prefix, st.id) \o suffix,
      cur |-> st.cur,
      dict |-> DictSet(st.dict, Placeholder(prefix, st.id) \o suffix, match),
      id |-> st.id + 1 ]

\* The text between two matches is copied to the output.
PutText(st, t) == [ st EXCEPT !.out = @ \o t ]

\* The first position at or after i where /\$[a-zA-Z0-9_-]+/ matches, or 0.
NextVar(s, i) == First({ k \in i .. Len(s) : VarEnd(s, k) > 0 })

\* The first position at or after i where the structural-node regex matches.
NextNode(s, i) == First({ k \in i .. Len(s) : NodeEnd(s, k) > 0 })

\* The first position at or after i where /!(\s*\{)/ matches, or 0.
NextBang(s, i) == First({ k \in i .. Len(s) : BangEnd(s, k) > 0 })

RECURSIVE MaskVarsFrom(_, _, _)
\* prepText.replace(/\$[a-zA-Z0-9_-]+/g, maskMatch(match, "VAR")) from i.
MaskVarsFrom(s, i, st) ==
    Bind(NextVar(s, i), LAMBDA m :
        IF m = 0 THEN PutText(st, Sub(s, i, Len(s) + 1))
        ELSE Bind(VarEnd(s, m), LAMBDA e :
                 MaskVarsFrom(s, e,
                     PutMask(PutText(st, Sub(s, i, m)), "VAR", "",
                             Sub(s, m, e)))))

RECURSIVE MaskNodesFrom(_, _, _)
\* The structural-node replace with maskMatch(match, "NODE") from i.
MaskNodesFrom(s, i, st) ==
    Bind(NextNode(s, i), LAMBDA m :
        IF m = 0 THEN PutText(st, Sub(s, i, Len(s) + 1))
        ELSE Bind(NodeEnd(s, m), LAMBDA e :
                 MaskNodesFrom(s, e,
                     PutMask(PutText(st, Sub(s, i, m)), "NODE", "",
                             Sub(s, m, e)))))

RECURSIVE MaskBangsFrom(_, _, _)
\* prepText.replace(/!(\s*\{)/g, ...): the placeholder, which is also the
\* key, carries the synthetic " =" and the captured brace.
MaskBangsFrom(s, i, st) ==
    Bind(NextBang(s, i), LAMBDA m :
        IF m = 0 THEN PutText(st, Sub(s, i, Len(s) + 1))
        ELSE Bind(BangEnd(s, m), LAMBDA e :
                 MaskBangsFrom(s, e,
                     PutMask(PutText(st, Sub(s, i, m)), "BANG",
                             " =" \o Sub(s, m + 1, e),
                             Sub(s, m, e)))))

\* Steps 1 to 5 of provideDocumentFormattingEdits: what is written to the
\* formatter, whether it was wrapped, and the placeholder map.
MaskForFormat(text) ==
    Bind(MaskLetLoop(text, 1,
             [ out |-> "", cur |-> 0, dict |-> << >>, id |-> 0 ]), LAMBDA s1 :
    Bind(MaskVarsFrom(s1.out, 1, [ s1 EXCEPT !.out = "" ]), LAMBDA s2 :
    Bind(MaskNodesFrom(s2.out, 1, [ s2 EXCEPT !.out = "" ]), LAMBDA s3 :
    Bind(MaskBangsFrom(s3.out, 1, [ s3 EXCEPT !.out = "" ]), LAMBDA s4 :
    Bind(~TopLevelForm(s4.out), LAMBDA wrap :
        [ prepText |-> IF wrap THEN WrapText(s4.out) ELSE s4.out,
          isWrapped |-> wrap,
          maskDict |-> s4.dict ])))))

\* ------------------------------------------------------- unwrap and restore

\* The line terminators after which /^/m matches.
LineTerminators == { "\n", "\r" }

\* The first position at or after i where /^  /m matches, or 0.
NextIndent(s, i) ==
    First({ k \in i .. Len(s) :
              /\ k = 1 \/ Ch(s, k - 1) \in LineTerminators
              /\ MatchStr(s, k, "  ") })

RECURSIVE StripIndentFrom(_, _)
\* finalText.replace(/^  /gm, "") from position i.
StripIndentFrom(s, i) ==
    Bind(NextIndent(s, i), LAMBDA m :
        IF m = 0 THEN Sub(s, i, Len(s) + 1)
        ELSE Sub(s, i, m) \o StripIndentFrom(s, m + 2))

\* An unwrap that kept the indentation of the lines.
UnwrapKeepIndent(stdout) ==
    Bind(Trim(stdout), LAMBDA t0 :
    Bind(IF MatchStr(t0, 1, "{") THEN Sub(t0, 2, Len(t0) + 1) ELSE t0, LAMBDA t1 :
    Bind(IF Len(t1) > 0 /\ Ch(t1, Len(t1)) = "}"
         THEN Sub(t1, 1, Len(t1)) ELSE t1, LAMBDA t2 :
        Trim(t2) \o "\n")))

\* The unwrap of the close handler for a wrapped text.
Unwrap(stdout) ==
    Bind(Trim(stdout), LAMBDA t0 :
    Bind(IF MatchStr(t0, 1, "{") THEN Sub(t0, 2, Len(t0) + 1) ELSE t0, LAMBDA t1 :
    Bind(IF Len(t1) > 0 /\ Ch(t1, Len(t1)) = "}"
         THEN Sub(t1, 1, Len(t1)) ELSE t1, LAMBDA t2 :
        Trim(StripIndentFrom(t2, 1)) \o "\n")))

\* finalText.replace(new RegExp(placeholder + "\\s*="), originalText): the
\* first occurrence only.
RestoreLetStart(s, ph, orig) ==
    LET K == { k \in 1 .. Len(s) :
                 MatchStr(s, k, ph) /\ Ch(s, WsEnd(s, k + Len(ph))) = "=" }
    IN  IF K = {} THEN s
        ELSE LET k == Min(K)
             IN  Sub(s, 1, k) \o orig
                   \o Sub(s, WsEnd(s, k + Len(ph)) + 1, Len(s) + 1)

\* finalText.replace(new RegExp(";\\s*" + placeholder + "\\s*="), " ="): the
\* first occurrence only.
RestoreLetEnd(s, ph) ==
    LET K == { k \in 1 .. Len(s) :
                 /\ Ch(s, k) = ";"
                 /\ MatchStr(s, WsEnd(s, k + 1), ph)
                 /\ Ch(s, WsEnd(s, WsEnd(s, k + 1) + Len(ph))) = "=" }
    IN  IF K = {} THEN s
        ELSE LET k == Min(K)
             IN  Sub(s, 1, k) \o " ="
                   \o Sub(s, WsEnd(s, WsEnd(s, k + 1) + Len(ph)) + 1, Len(s) + 1)

RECURSIVE RestoreAllFrom(_, _, _, _)
\* finalText.replace(new RegExp(placeholder, "g"), originalText) from i.
RestoreAllFrom(s, i, ph, orig) ==
    Bind(IndexOf(s, ph, i), LAMBDA m :
        IF m = 0 THEN Sub(s, i, Len(s) + 1)
        ELSE Sub(s, i, m) \o orig \o RestoreAllFrom(s, m + Len(ph), ph, orig))

\* One iteration of the restore loop.
RestoreOne(s, ph, orig) ==
    IF MatchStr(ph, 1, "__ZEN_LET_S_") THEN RestoreLetStart(s, ph, orig)
    ELSE IF MatchStr(ph, 1, "__ZEN_LET_E_") THEN RestoreLetEnd(s, ph)
    ELSE RestoreAllFrom(s, 1, ph, orig)

RECURSIVE RestoreForward(_, _, _)
\* A restore loop over the keys in insertion order, the first inserted first.
RestoreForward(s, dict, n) ==
    IF n = 0 THEN s
    ELSE RestoreOne(RestoreForward(s, dict, n - 1), dict[n][1], dict[n][2])

RECURSIVE RestoreLoop(_, _, _)
\* The restore loop over Array.from(maskDict.keys()).reverse(): n is the
\* number of entries still to restore, the last inserted first.
RestoreLoop(s, dict, n) ==
    IF n = 0 THEN s
    ELSE RestoreLoop(RestoreOne(s, dict[n][1], dict[n][2]), dict, n - 1)

\* The text of the edit the close handler resolves with on success.
FinalText(stdout, isWrapped, dict) ==
    RestoreLoop(IF isWrapped THEN Unwrap(stdout) ELSE stdout, dict, Len(dict))

\* -------------------------------------------------------------- diagnostics

\* new vscode.Diagnostic(new vscode.Range(sl, sc, el, ec), message, Error)
Diagnostic(sl, sc, el, ec, message) ==
    [ range |-> << sl, sc, el, ec >>, message |-> message, severity |-> "Error" ]

\* doc.positionAt(offset) for a 0-based offset: << line, character >>.
PositionAt(text, offset) ==
    Bind(JsSubstring(text, 0, offset), LAMBDA before :
    Bind({ k \in 1 .. Len(before) : Ch(before, k) = "\n" }, LAMBDA nl :
        << Cardinality(nl),
           IF nl = {} THEN Len(before) ELSE Len(before) - Max(nl) >>))

\* ------------------------------------------------------------ runTypeChecks

\* The captures of the declaration regex of runTypeChecks for a match that
\* starts at m: the name, the type and the bracketed list's content
\* (hasEnum tells whether the list is there at all).
LetCaptures(s, m) ==
    Bind(WsEnd(s, m + 4), LAMBDA b :
    Bind(IdEnd(s, b), LAMBDA c :
    Bind(WsEnd(s, WsEnd(s, c) + 1), LAMBDA e :
    Bind(IF MatchStr(s, e, "$type.") /\ IdEnd(s, e + 6) > e + 6
         THEN e + 6 ELSE e, LAMBDA ts :
    Bind(IdEnd(s, ts), LAMBDA te :
    Bind(WsEnd(s, te), LAMBDA w :
        [ varName |-> Sub(s, b, c),
          varType |-> Sub(s, ts, te),
          hasEnum |-> Ch(s, w) = "[",
          enumContent |->
              IF Ch(s, w) = "["
              THEN Sub(s, w + 1,
                       Min({ k \in (w + 1) .. Len(s) :
                               Ch(s, k) = "]" /\ Ch(s, WsEnd(s, k + 1)) = "=" }))
              ELSE "" ]))))))

\* /^\d+$/: an integer test that knows no sign.
IsUnsignedText(v) == 1 <= Len(v) /\ RunEnd(v, 1, Digits) = Len(v) + 1

\* /^-?\d+$/
IsIntegerText(v) ==
    LET d == IF Ch(v, 1) = "-" THEN 2 ELSE 1
    IN  d <= Len(v) /\ RunEnd(v, d, Digits) = Len(v) + 1

\* /^-?\d+(\.\d+)?$/
IsFloatText(v) ==
    LET d == IF Ch(v, 1) = "-" THEN 2 ELSE 1
        e == RunEnd(v, d, Digits)
    IN  /\ e > d
        /\ \/ e = Len(v) + 1
           \/ /\ Ch(v, e) = "."
              /\ e + 1 <= Len(v)
              /\ RunEnd(v, e + 1, Digits) = Len(v) + 1

\* A value compared with its quotes on.
KeepQuotes(v) == v

\* valText.replace(/^"|"$/g, "")
StripQuotes(v) ==
    LET a == IF Ch(v, 1) = "\"" THEN 2 ELSE 1
        z == IF Len(v) >= a /\ Ch(v, Len(v)) = "\"" THEN Len(v) ELSE Len(v) + 1
    IN  Sub(v, a, z)

\* The end of /"([^"]+)"/ matched at k, 0 when it does not match there.
QuotedEnd(s, k) ==
    LET q == RunEnd(s, k + 1, { Ch(s, n) : n \in 1 .. Len(s) } \ { "\"" })
    IN  IF Ch(s, k) = "\"" /\ q > k + 1 /\ Ch(s, q) = "\"" THEN q + 1 ELSE 0

RECURSIVE EnumOptionsFrom(_, _)
\* enumContent.match(/"([^"]+)"/g).map(s => s.replace(/"/g, "")) from i.
EnumOptionsFrom(s, i) ==
    Bind(First({ k \in i .. Len(s) : QuotedEnd(s, k) > 0 }), LAMBDA m :
        IF m = 0 THEN << >>
        ELSE Bind(QuotedEnd(s, m), LAMBDA e :
                 << Sub(s, m + 1, e - 1) >> \o EnumOptionsFrom(s, e)))

RECURSIVE JoinComma(_)
\* options.join(", ")
JoinComma(opts) ==
    IF opts = << >> THEN ""
    ELSE IF Len(opts) = 1 THEN opts[1]
    ELSE opts[1] \o ", " \o JoinComma(Tail(opts))

\* Whether the character at position k lies in a double-quoted string that
\* was opened at or after from: the quotes from from to k that no backslash
\* precedes are odd in number.
Quoted(s, from, k) ==
    Cardinality({ j \in from .. k : Ch(s, j) = "\"" /\ Ch(s, j - 1) # "\\" }) % 2 = 1

\* The bracket depth after the character at position k, counted from from
\* and outside the strings.
DepthAt(s, from, k) ==
    Cardinality({ j \in from .. k : Ch(s, j) \in { "[", "{", "(" } /\ ~Quoted(s, from, j) })
      - Cardinality({ j \in from .. k : Ch(s, j) \in { "]", "}", ")" } /\ ~Quoted(s, from, j) })

\* A bound at the first ";" at or after e that stands at bracket depth 0 and
\* outside a double-quoted string, 0 when there is none.
TopLevelTerminator(text, e) ==
    First({ p \in e .. Len(text) :
              Ch(text, p) = ";" /\ ~Quoted(text, e, p) /\ DepthAt(text, e, p) = 0 })

\* text.indexOf(";", valueStartPos): where VALUE ends, 0 when no ";" follows.
ValueEnd(text, e) == IndexOf(text, ";", e)

\* The diagnostics (none or one) of one matched declaration whose match ends
\* before position e (the value starts at e).
TypeCheckOne(text, m, e) ==
    Bind(LetCaptures(text, m), LAMBDA cap :
    Bind(ValueEnd(text, e), LAMBDA semi :
    Bind(Sub(text, e, semi), LAMBDA valTextRaw :
    Bind(Trim(valTextRaw), LAMBDA valText :
    Bind((e - 1) + (IndexOf(valTextRaw, valText, 1) - 1), LAMBDA startIdx :
    Bind(PositionAt(text, startIdx), LAMBDA from :
    Bind(PositionAt(text, startIdx + Len(valText)), LAMBDA to :
    Bind(StripQuotes(valText), LAMBDA cleanVal :
    Bind(IF cap.hasEnum /\ cap.enumContent # ""
         THEN EnumOptionsFrom(cap.enumContent, 1) ELSE << >>, LAMBDA options :
    LET diag(msg) == << Diagnostic(from[1], from[2], to[1], to[2], msg) >>
    IN  IF semi = 0 \/ valText = "" THEN << >>
        ELSE IF cap.varType = "string"
        THEN IF ~MatchStr(valText, 1, "\"") /\ ~MatchStr(valText, 1, "''")
             THEN diag("Type Error: Expected a string for '" \o cap.varName \o "'.")
             ELSE << >>
        ELSE IF cap.varType \in { "int", "integer" }
        THEN IF ~IsIntegerText(valText)
             THEN diag("Type Error: Expected an integer for '" \o cap.varName \o "'.")
             ELSE << >>
        ELSE IF cap.varType = "float"
        THEN IF ~IsFloatText(valText)
             THEN diag("Type Error: Expected a float for '" \o cap.varName \o "'.")
             ELSE << >>
        ELSE IF cap.varType = "boolean"
        THEN IF valText \notin { "true", "false" }
             THEN diag("Type Error: Expected boolean (true/false) for '"
                       \o cap.varName \o "'.")
             ELSE << >>
        ELSE IF cap.varType = "enum"
        THEN IF \A k \in 1 .. Len(options) : options[k] # cleanVal
             THEN diag("Type Error: Value \"" \o cleanVal
                       \o "\" is not a valid option for enum '" \o cap.varName
                       \o "'. Valid options: [" \o JoinComma(options) \o "]")
             ELSE << >>
        ELSE << >>)))))))))

RECURSIVE TypeChecksFrom(_, _)
\* The while loop over letRegex.exec(text), searching from position i.
TypeChecksFrom(text, i) ==
    Bind(First({ k \in i .. Len(text) : LetAssignEnd(text, k) > 0 }), LAMBDA m :
        IF m = 0 THEN << >>
        ELSE Bind(LetAssignEnd(text, m), LAMBDA e :
                 TypeCheckOne(text, m, e) \o TypeChecksFrom(text, e)))

\* runTypeChecks(doc)
runTypeChecks(text) == TypeChecksFrom(text, 1)

\* ------------------------------------------------------ runStaticHeuristics

RECURSIVE SplitLines(_)
\* text.split("\n")
SplitLines(text) ==
    Bind(IndexOf(text, "\n", 1), LAMBDA m :
        IF m = 0 THEN << text >>
        ELSE << Sub(text, 1, m) >> \o SplitLines(Sub(text, m + 1, Len(text) + 1)))

\* The line up to its first "#".
StripComment(line) ==
    Bind(IndexOf(line, "#", 1), LAMBDA m :
        IF m = 0 THEN line ELSE Sub(line, 1, m))

\* s.endsWith(suffix)
EndsWith(s, suffix) == MatchStr(s, Len(s) - Len(suffix) + 1, suffix)

\* A count that is 1 for a line with a delimiter, however many it has.
AnyQuotePair(s, i) == IF IndexOf(s, "''", i) = 0 THEN 0 ELSE 1

RECURSIVE CountQuotePairs(_, _)
\* (cleanLine.match(/''/g) || []).length, counted from position i.
CountQuotePairs(s, i) ==
    IF IndexOf(s, "''", i) = 0 THEN 0
    ELSE 1 + CountQuotePairs(s, IndexOf(s, "''", i) + 2)

\* pairs: the opener of each closing character.
Pairs(char) ==
    CASE char = ")" -> "("
      [] char = "}" -> "{"
      [] char = "]" -> "["

Openers == { "(", "{", "[" }

Closers == { ")", "}", "]" }

\* The scan state before the first line.
ScanInit ==
    [ stack |-> << >>, arrayDepth |-> 0, inMultiline |-> FALSE,
      insideActionBlock |-> FALSE, actionBlockDepth |-> 0,
      diagnostics |-> << >> ]

\* A character loop that pushes every bracket, the closing ones too.
PushOnly(sc, char, i, j) ==
    [ sc EXCEPT !.stack = Append(@, [ char |-> char, line |-> i, col |-> j ]) ]

\* A character loop that leaves the opener on the stack when the closing
\* character does not match it.
BracketCharKeepOnMismatch(sc, char, i, j) ==
    IF char \in Openers
    THEN [ sc EXCEPT !.stack = Append(@, [ char |-> char, line |-> i, col |-> j ]),
                     !.arrayDepth = IF char = "[" THEN @ + 1 ELSE @ ]
    ELSE [ sc EXCEPT
             !.arrayDepth = IF char = "]"
                            THEN (IF @ - 1 > 0 THEN @ - 1 ELSE 0) ELSE @,
             !.stack = IF @ = << >> \/ @[Len(@)].char # Pairs(char)
                       THEN @ ELSE SubSeq(@, 1, Len(@) - 1),
             !.diagnostics =
                 IF sc.stack = << >> \/ sc.stack[Len(sc.stack)].char # Pairs(char)
                 THEN Append(@, Diagnostic(i, j, i, j + 1,
                          "Unexpected closing character '" \o char \o "'."))
                 ELSE @ ]

\* A character loop whose "]" decrements arrayDepth without a floor.
BracketCharNoFloor(sc, char, i, j) ==
    IF char \in Openers
    THEN [ sc EXCEPT !.stack = Append(@, [ char |-> char, line |-> i, col |-> j ]),
                     !.arrayDepth = IF char = "[" THEN @ + 1 ELSE @ ]
    ELSE [ sc EXCEPT
             !.arrayDepth = IF char = "]" THEN @ - 1 ELSE @,
             !.stack = IF @ = << >> THEN @ ELSE SubSeq(@, 1, Len(@) - 1),
             !.diagnostics =
                 IF sc.stack = << >> \/ sc.stack[Len(sc.stack)].char # Pairs(char)
                 THEN Append(@, Diagnostic(i, j, i, j + 1,
                          "Unexpected closing character '" \o char \o "'."))
                 ELSE @ ]

\* The body of the character loop for one bracket char at line i, column j
\* (both 0-based); every other character leaves the state alone.
BracketChar(sc, char, i, j) ==
    IF char \in Openers
    THEN [ sc EXCEPT !.stack = Append(@, [ char |-> char, line |-> i, col |-> j ]),
                     !.arrayDepth = IF char = "[" THEN @ + 1 ELSE @ ]
    ELSE [ sc EXCEPT
             !.arrayDepth = IF char = "]"
                            THEN (IF @ - 1 > 0 THEN @ - 1 ELSE 0) ELSE @,
             !.stack = IF @ = << >> THEN @ ELSE SubSeq(@, 1, Len(@) - 1),
             !.diagnostics =
                 IF sc.stack = << >> \/ sc.stack[Len(sc.stack)].char # Pairs(char)
                 THEN Append(@, Diagnostic(i, j, i, j + 1,
                          "Unexpected closing character '" \o char \o "'."))
                 ELSE @ ]

\* The first position at or after j of cleanLine that holds a bracket, or 0.
NextBracket(cleanLine, j) ==
    First({ k \in j .. Len(cleanLine) : Ch(cleanLine, k) \in Openers \cup Closers })

RECURSIVE BracketLoop(_, _, _, _)
\* The character loop over cleanLine of line i from position j.
BracketLoop(cleanLine, j, i, sc) ==
    Bind(NextBracket(cleanLine, j), LAMBDA m :
        IF m = 0 THEN sc
        ELSE BracketLoop(cleanLine, m + 1, i,
                 BracketChar(sc, Ch(cleanLine, m), i, m - 1)))

\* /_(?:u|s)?action\s*=/.test(trimmed) || /^!(\s*\{|$)/.test(trimmed)
ActionEntry(trimmed) ==
    \/ \E k \in 1 .. Len(trimmed) :
         \E kw \in { "_action", "_uaction", "_saction" } :
            /\ MatchStr(trimmed, k, kw)
            /\ Ch(trimmed, WsEnd(trimmed, k + Len(kw))) = "="
    \/ /\ Ch(trimmed, 1) = "!"
       /\ Ch(trimmed, WsEnd(trimmed, 2)) \in { "{", "" }

\* Whether s starts with one of the keywords kws followed by a word boundary.
StartsWithKeyword(s, kws) ==
    \E kw \in kws : MatchStr(s, 1, kw) /\ Ch(s, Len(kw) + 1) \notin WordChars

\* cleanLine.match(/\}\s+([a-zA-Z0-9_-]+)/): the captured identifier of the
\* first match, "" when there is no match.
InlineMatch(cleanLine) ==
    Bind(First({ k \in 1 .. Len(cleanLine) :
                   /\ Ch(cleanLine, k) = "}"
                   /\ WsEnd(cleanLine, k + 1) > k + 1
                   /\ Ch(cleanLine, WsEnd(cleanLine, k + 1)) \in IdChars }),
         LAMBDA m :
        IF m = 0 THEN ""
        ELSE Sub(cleanLine, WsEnd(cleanLine, m + 1),
                 IdEnd(cleanLine, WsEnd(cleanLine, m + 1))))

\* cleanLine.lastIndexOf("}") (0-based, -1 when absent)
LastBrace(cleanLine) ==
    LET K == { k \in 1 .. Len(cleanLine) : Ch(cleanLine, k) = "}" }
    IN  IF K = {} THEN -1 ELSE Max(K) - 1

\* The look-ahead after a line ending in "}": the next line after line i
\* (0-based) that has content once its comment is stripped, "" if none.
NextContentLine(lines, i) ==
    Bind(First({ k \in (i + 2) .. Len(lines) :
                   Trim(StripComment(lines[k])) # "" }), LAMBDA k :
        IF k = 0 THEN "" ELSE Trim(StripComment(lines[k])))

\* The two closing-brace checks of one line.
BraceChecks(lines, i, cleanLine, trimmed) ==
    Bind(LastBrace(cleanLine), LAMBDA idx :
    Bind(NextContentLine(lines, i), LAMBDA nextLine :
    Bind(InlineMatch(cleanLine), LAMBDA inlineMatch :
        (IF inlineMatch # "" /\ inlineMatch \notin { "in", "then", "else" }
         THEN << Diagnostic(i, idx, i, idx + 1, "Expected ';' after '}'.") >>
         ELSE << >>)
        \o
        (IF /\ EndsWith(trimmed, "}")
            /\ nextLine # ""
            /\ Ch(nextLine, 1) \notin { ";", "]", ")", "}" }
            /\ ~StartsWithKeyword(nextLine, { "in", "then", "else" })
         THEN << Diagnostic(i, idx, i, idx + 1, "Missing ';' after '}'.") >>
         ELSE << >>))))

\* Closing-brace checks that are applied whatever the suppression state.
BraceChecksAlways(skipHeuristics, lines, i, cleanLine, trimmed) ==
    BraceChecks(lines, i, cleanLine, trimmed)

\* if (!skipHeuristics) { ... }: the two closing-brace checks of one line
\* under their guard.
ClosingBraceChecks(skipHeuristics, lines, i, cleanLine, trimmed) ==
    IF ~skipHeuristics THEN BraceChecks(lines, i, cleanLine, trimmed) ELSE << >>

\* Statement-shape checks that look for the assignment only.
AssignmentCheckOnly(i, cleanLine, trimmed, startIdx, endIdx) ==
    IF /\ \E k \in 1 .. Len(trimmed) : Ch(trimmed, k) \in IdChars
       /\ IndexOf(cleanLine, "=", 1) = 0
       /\ ~EndsWith(trimmed, "{")
       /\ ~EndsWith(trimmed, "''")
    THEN << Diagnostic(i, startIdx, i, endIdx, "Missing '=' assignment.") >>
    ELSE << >>

\* The statement-shape checks of one line.
ShapeChecks(i, cleanLine, trimmed, startIdx, endIdx) ==
    IF \/ StartsWithKeyword(trimmed,
              { "let", "in", "with", "inherit", "if", "then", "else", "_let" })
       \/ MatchStr(trimmed, 1, "}")
       \/ \A k \in 1 .. Len(trimmed) : Ch(trimmed, k) \notin IdChars
    THEN << >>
    ELSE IF IndexOf(cleanLine, "=", 1) = 0
    THEN IF ~EndsWith(trimmed, "{") /\ ~EndsWith(trimmed, "''")
         THEN << Diagnostic(i, startIdx, i, endIdx, "Missing '=' assignment.") >>
         ELSE << >>
    ELSE IF \A e \in { ";", "{", "[", "(", "''", "=" } : ~EndsWith(trimmed, e)
         THEN << Diagnostic(i, startIdx, i, endIdx,
                            "Missing ';' at the end of the statement.") >>
         ELSE << >>

\* One iteration of the line loop for line i (0-based).
ScanLine(lines, i, sc) ==
    Bind(StripComment(lines[i + 1]), LAMBDA cleanLine :
    Bind(Trim(cleanLine), LAMBDA trimmed :
    Bind(IF IndexOf(cleanLine, trimmed, 1) - 1 > 0
         THEN IndexOf(cleanLine, trimmed, 1) - 1 ELSE 0, LAMBDA startIdx :
    Bind(startIdx + Len(trimmed), LAMBDA endIdx :
    Bind(IF CountQuotePairs(cleanLine, 1) % 2 # 0
         THEN ~sc.inMultiline ELSE sc.inMultiline, LAMBDA inMultiline :
    Bind(inMultiline \/ sc.insideActionBlock, LAMBDA skipHeuristics :
    Bind(BracketLoop(cleanLine, 1, i, sc), LAMBDA s1 :
    Bind(ActionEntry(trimmed) \/ s1.insideActionBlock, LAMBDA entered :
    Bind(IF ActionEntry(trimmed) THEN Len(s1.stack)
         ELSE s1.actionBlockDepth, LAMBDA depth :
        IF trimmed = "" THEN sc
        ELSE [ stack |-> s1.stack,
               arrayDepth |-> s1.arrayDepth,
               inMultiline |-> inMultiline,
               insideActionBlock |-> entered /\ ~(Len(s1.stack) < depth),
               actionBlockDepth |-> depth,
               diagnostics |->
                   s1.diagnostics
                   \o ClosingBraceChecks(skipHeuristics, lines, i, cleanLine, trimmed)
                   \o (IF s1.arrayDepth = 0 /\ ~skipHeuristics
                       THEN ShapeChecks(i, cleanLine, trimmed, startIdx, endIdx)
                       ELSE << >>) ])))))))))

RECURSIVE ScanLines(_, _, _)
\* The line loop from line i (0-based).
ScanLines(lines, i, sc) ==
    IF i >= Len(lines) THEN sc ELSE ScanLines(lines, i + 1, ScanLine(lines, i, sc))

\* A final loop that reports the innermost open bracket only.
UnclosedInnermost(stack) ==
    IF stack = << >> THEN << >>
    ELSE LET u == stack[Len(stack)]
         IN  << Diagnostic(u.line, u.col, u.line, u.col + 1,
                           "Unclosed character '" \o u.char \o "'.") >>

\* The final loop: one diagnostic per entry left on the stack, last first.
Unclosed(stack) ==
    [ k \in 1 .. Len(stack) |->
        LET u == stack[Len(stack) + 1 - k]
        IN  Diagnostic(u.line, u.col, u.line, u.col + 1,
                       "Unclosed character '" \o u.char \o "'.") ]

\* runStaticHeuristics(doc)
runStaticHeuristics(text) ==
    Bind(ScanLines(SplitLines(text), 0, ScanInit), LAMBDA fin :
        fin.diagnostics \o Unclosed(fin.stack))

\* --------------------------------------------------- the parser's error line

RECURSIVE ParseInt(_)
\* parseInt(s, 10) of a run of decimal digits.
ParseInt(s) ==
    IF s = "" THEN 0
    ELSE 10 * ParseInt(Sub(s, 1, Len(s)))
           + (CHOOSE d \in 0 .. 9 : DigitStr(d) = Ch(s, Len(s)))

\* The end of /(\d+):(\d+)/ preceded by " at (stdin):" at j, 0 if no match.
StdinPosEnd(s, j) ==
    LET l == j + 12
        le == RunEnd(s, l, Digits)
        ce == RunEnd(s, le + 1, Digits)
    IN  IF MatchStr(s, j, " at (stdin):") /\ le > l /\ Ch(s, le) = ":" /\ ce > le + 1
        THEN ce ELSE 0

\* Where the message of an "error: " at i ends: the first " at (stdin):"
\* with its position that no line terminator precedes (.*? is lazy and does
\* not cross a line), 0 if there is none.
ErrMessageEnd(s, i) ==
    LET from == i + 7
        T == { k \in from .. Len(s) : Ch(s, k) \in LineTerminators }
        limit == IF T = {} THEN Len(s) ELSE Min(T) - 1
        J == { j \in from .. limit : StdinPosEnd(s, j) > 0 }
    IN  IF MatchStr(s, i, "error: ") /\ J # {} THEN Min(J) ELSE 0

\* stderr.match(/error: (.*?) at \(stdin\):(\d+):(\d+)/): the leftmost
\* "error: " that a message and a position follow.
ErrMatch(stderr) ==
    Bind(First({ i \in 1 .. Len(stderr) : ErrMessageEnd(stderr, i) > 0 }),
         LAMBDA i :
        IF i = 0 THEN [ matched |-> FALSE, message |-> "", line |-> 0, col |-> 0 ]
        ELSE Bind(ErrMessageEnd(stderr, i), LAMBDA j :
             Bind(RunEnd(stderr, j + 12, Digits), LAMBDA le :
                 [ matched |-> TRUE,
                   message |-> Sub(stderr, i + 7, j),
                   line |-> ParseInt(Sub(stderr, j + 12, le)),
                   col |-> ParseInt(Sub(stderr, le + 1,
                                        RunEnd(stderr, le + 1, Digits))) ])))

\* errLineOffset after the compensation for the synthetic "{\n".
ErrLineOffset(line, isWrapped) == IF isWrapped THEN line - 1 - 1 ELSE line - 1

\* The line without the clamp to the document's last line.
UnclampedLine(errLineOffset, lineCount) ==
    IF errLineOffset > 0 THEN errLineOffset ELSE 0

\* finalLine: Math.min(Math.max(0, errLineOffset), doc.lineCount - 1)
FinalLine(errLineOffset, lineCount) ==
    LET targetLine == IF errLineOffset > 0 THEN errLineOffset ELSE 0
        maxLine == lineCount - 1
    IN  IF targetLine < maxLine THEN targetLine ELSE maxLine

\* The "Syntax Error" diagnostic of a recognized error line.
SyntaxDiagnostic(m, isWrapped, lineCount) ==
    LET finalLine == FinalLine(ErrLineOffset(m.line, isWrapped), lineCount)
        safeCol == IF m.col - 1 > 0 THEN m.col - 1 ELSE 0
    IN  Diagnostic(finalLine, safeCol, finalLine, safeCol + 1,
                   "Syntax Error: " \o m.message)

\* A close handler that looked at the error stream only, whatever the exit
\* status.
CloseIgnoringStatus(existingDiagnostics, code, stderr, isWrapped, lineCount) ==
    Bind(ErrMatch(stderr), LAMBDA errMatch :
        IF stderr # "" /\ errMatch.matched
        THEN Append(existingDiagnostics,
                    SyntaxDiagnostic(errMatch, isWrapped, lineCount))
        ELSE existingDiagnostics)

\* The set the close handler of runNixCompilerChecks publishes.
CloseDiagnostics(existingDiagnostics, code, stderr, isWrapped, lineCount) ==
    Bind(ErrMatch(stderr), LAMBDA errMatch :
        IF code # 0 /\ stderr # "" /\ errMatch.matched
        THEN Append(existingDiagnostics,
                    SyntaxDiagnostic(errMatch, isWrapped, lineCount))
        ELSE existingDiagnostics)

\* A close handler that added its diagnostics to the set the document has.
MergeIntoCurrent(current, existingDiagnostics, diagnostics) ==
    current \o diagnostics

\* A close handler that guarded against stale results would leave the set of
\* the document alone when something was published after its own schedule.
PublishUnlessNewer(current, existingDiagnostics, diagnostics) ==
    IF current = existingDiagnostics THEN diagnostics ELSE current

\* collection.set(doc.uri, diagnostics) of the close handler: the whole set of
\* the document is replaced, whatever it holds now (current) and whatever the
\* check captured (existingDiagnostics).
ClosePublish(current, existingDiagnostics, diagnostics) == diagnostics

\* ---------------------------------------------------------- the orchestrator

\* The documents of the editor; the first two are dialect documents.
Docs == { "a.znix", "b.znix", "notes.txt" }

\* event.document.languageId
LanguageId(d) == IF d = "notes.txt" THEN "plaintext" ELSE "zen-nix"

DialectDocs == { d \in Docs : LanguageId(d) = "zen-nix" }

\* The texts a change event can leave a document with.
DocTexts ==
    { "{\n  b = 2\n}",
      "_let x : int = \"5\";\nfoo = 1" }

\* What a parser process can write to its error stream.
StderrSamples ==
    { "error: syntax error, unexpected '}' at (stdin):3:1\n",
      "error: unexpected end of file at (stdin):1:0",
      "error: undefined variable at /tmp/x.nix:1:1" }

\* The exit statuses of an external process.
ExitCodes == { 0, 1 }

\* The other order of the two synchronous analyses, which the code does not
\* publish: the Checker's diagnostics first.
CheckerFirst(text) == runTypeChecks(text) \o runStaticHeuristics(text)

\* [...heuristics, ...typeChecks]
InitialDiagnostics(text) == runStaticHeuristics(text) \o runTypeChecks(text)

\* A scheduler without the clearTimeout call would leave every timer armed.
NoClear(armed, handle) == armed

\* clearTimeout(handle): the timer of that handle is no longer armed.
ClearTimeout(armed, handle) == { t \in armed : t.id # handle }

\* A scheduler without the setTimeout call would arm nothing.
NeverArmed(armed, t) == armed

\* setTimeout(callback, 500): one more armed timer.
SetTimeout(armed, t) == armed \cup { t }

\* A timer that fires is no longer armed (setTimeout fires once).
Fired(armed, t) == armed \ { t }

\* scheduleDiagnostics(doc, collection), called for the text of doc after
\* the event (documents').
scheduleDiagnostics(doc) ==
    /\ calls < MaxCalls
    /\ \E initialDiagnostics \in { InitialDiagnostics(documents'[doc]) } :
       \E id \in { calls + 1 } :
          /\ calls' = id
          /\ collection' = [ collection EXCEPT ![doc] = initialDiagnostics ]
          /\ timers' = SetTimeout(ClearTimeout(timers, diagnosticTimeout),
                                  [ id |-> id, doc |-> doc,
                                    initialDiagnostics |-> initialDiagnostics ])
          /\ diagnosticTimeout' = id
          /\ latest' = [ latest EXCEPT ![doc] = id ]
          /\ superseded' = superseded \cup { t.id : t \in timers }
          /\ source' = [ source EXCEPT ![doc] = [ call |-> id, kind |-> "sync" ] ]
          /\ UNCHANGED << processes, spawned, checked, exitCode >>

NoEditor == "none"

\* activate(): the change handler is registered, and the active editor's
\* document is scheduled when it is a dialect document.
Activate ==
    /\ ~activated
    /\ activated' = TRUE
    /\ UNCHANGED << documents, nix, fmt, scan, chk >>
    /\ \E ed \in Docs \cup { NoEditor } :
          IF ed \in Docs /\ LanguageId(ed) = "zen-nix"
          THEN scheduleDiagnostics(ed)
          ELSE UNCHANGED << collection, diagnosticTimeout, timers, processes,
                            calls, latest, superseded, spawned, checked,
                            source, exitCode >>

\* A change event of document d, which leaves it with text t: the
\* onDidChangeTextDocument handler.
ChangeTextDocument(d, t) ==
    /\ activated
    /\ documents' = [ documents EXCEPT ![d] = t ]
    /\ UNCHANGED << activated, nix, fmt, scan, chk >>
    /\ IF LanguageId(d) = "zen-nix"
       THEN scheduleDiagnostics(d)
       ELSE /\ documents'[d] # documents[d]
            /\ UNCHANGED << collection, diagnosticTimeout, timers, processes,
                            calls, latest, superseded, spawned, checked,
                            source, exitCode >>

\* The texts a document can hold: the empty text it starts with included.
AllTexts == DocTexts \cup { "" }

\* The four masking passes of runNixCompilerChecks on every document text
\* (computed once: the passes depend on the text only).
MaskedText == [ text \in AllTexts |-> MaskForParse(text) ]

\* The process runNixCompilerChecks spawns for the timer t: the text is read
\* when the timer fires.
NixProcess(t, text) ==
    Bind(MaskedText[text], LAMBDA masked :
    Bind(~TopLevelForm(masked), LAMBDA isWrapped :
        [ call |-> t.id, doc |-> t.doc,
          existingDiagnostics |-> t.initialDiagnostics,
          masked |-> IF isWrapped THEN WrapText(masked) ELSE masked,
          isWrapped |-> isWrapped,
          stderr |-> "" ]))

\* The debounce timer t fires: runNixCompilerChecks up to the spawn.
TimerFire(t) ==
    /\ t \in timers
    /\ timers' = Fired(timers, t)
    /\ processes' = processes \cup { NixProcess(t, documents[t.doc]) }
    /\ spawned' = Append(spawned, t.id)
    /\ UNCHANGED << documents, collection, diagnosticTimeout, activated, calls,
                    latest, superseded, checked, source, exitCode, nix, fmt,
                    scan, chk >>

\* The process p writes to its error stream: stderr += data.
ProcessStderr(p, data) ==
    /\ p \in processes
    /\ p.stderr = ""
    /\ processes' = (processes \ { p }) \cup { [ p EXCEPT !.stderr = @ \o data ] }
    /\ UNCHANGED << documents, collection, diagnosticTimeout, timers, activated,
                    calls, latest, superseded, spawned, checked, source,
                    exitCode, nix, fmt, scan, chk >>

\* The process p closes with the exit status code: the close handler.
ProcessClose(p, code) ==
    /\ p \in processes
    /\ processes' = processes \ { p }
    /\ collection' =
          [ collection EXCEPT ![p.doc] =
              ClosePublish(@, p.existingDiagnostics,
                           CloseDiagnostics(p.existingDiagnostics, code, p.stderr,
                                               p.isWrapped,
                                               LineCount(documents[p.doc]))) ]
    /\ checked' = checked \cup { p.call }
    /\ source' = [ source EXCEPT ![p.doc] = [ call |-> p.call, kind |-> "check" ] ]
    /\ exitCode' = code
    /\ UNCHANGED << documents, diagnosticTimeout, timers, activated, calls,
                    latest, superseded, spawned, nix, fmt, scan, chk >>

\* ------------------------------------------------ inputs of the masking runs

\* The pieces the input texts are built from: a declaration head, its
\* option list over two lines, the assignment sign, a context variable, a
\* structural node over two lines, the action marker, a brace, white space
\* and a plain statement.
MaskFragments ==
    { "_let a:t", "[\n]", "=", "$v", "(zmdl\nt)", "!", "{", "\n", " ", "b;" }

\* Every concatenation of at most MaxFrags fragments.
MaskInputs ==
    UNION { { Concat(f) : f \in [1 .. n -> MaskFragments] } : n \in 0 .. MaxFrags }

\* --------------------------------------------------------- the format request

\* The pieces the documents of a format request are built from.
FormatFragments ==
    { "a = 1;", "\n  b = 2;", "\n", "{", "}", "$v", "(zmdl $m)", "!{",
      "_let x : int = ", "c: ", "(zmdl target)", "! {",
      "_let e : enum [\"=\"] = ", "__ZEN_VAR_0__", "# _let a : t\n" }

\* Every concatenation of at most MaxFormatFrags fragments.
FormatInputs ==
    UNION { { Concat(f) : f \in [1 .. n -> FormatFragments] } :
            n \in 0 .. MaxFormatFrags }

RECURSIVE IndentLines(_)
\* A formatter's layout of its input: every non-empty line two columns in.
IndentLines(lines) ==
    IF lines = << >> THEN ""
    ELSE (IF Head(lines) = "" THEN "" ELSE "  " \o Head(lines))
           \o (IF Len(lines) = 1 THEN "" ELSE "\n" \o IndentLines(Tail(lines)))

RECURSIVE RespaceFrom(_, _)
\* A formatter's spacing of the assignments of a block, from position i: one
\* space between an "=" and the "{" that follows it.
RespaceFrom(s, i) ==
    Bind(IndexOf(s, "=", i), LAMBDA m :
        IF m = 0 THEN Sub(s, i, Len(s) + 1)
        ELSE Bind(WsEnd(s, m + 1), LAMBDA e :
                 IF Ch(s, e) = "{"
                 THEN Sub(s, i, m + 1) \o " " \o RespaceFrom(s, e)
                 ELSE Sub(s, i, m + 1) \o RespaceFrom(s, m + 1)))

\* What the formatter can write to its output for the input it was given:
\* the input unchanged, the input laid out again with a final line break, or
\* the input with the assignments of its blocks spaced again.
FormatterOutputs(prepText) ==
    { prepText, IndentLines(SplitLines(prepText)) \o "\n",
      RespaceFrom(prepText, 1) }

\* document.lineAt(0).range.start to document.lineAt(lineCount - 1).range.end
FullRange(text) ==
    Bind(SplitLines(text), LAMBDA lines :
        << 0, 0, Len(lines) - 1, Len(lines[Len(lines)]) >>)

\* A success test that looked at the exit status only.
ExitedCleanly(code, stdout) == code = 0

\* Whether the close handler of the formatter takes the success branch.
FormatSucceeded(code, stdout) == code = 0 /\ Len(stdout) > 0

\* The format request before provideDocumentFormattingEdits is called.
FormatIdle(text) ==
    [ stage |-> "idle", text |-> text, prepText |-> "", isWrapped |-> FALSE,
      maskDict |-> << >>, stdout |-> "", stderr |-> "", code |-> 0,
      resolved |-> 0, edits |-> << >>, warning |-> "" ]

\* provideDocumentFormattingEdits(document) up to the spawn of the formatter
\* and the write of prepText to its input.
ProvideFormattingEdits ==
    /\ fmt.stage = "idle"
    /\ \E m \in { MaskForFormat(fmt.text) } :
          fmt' = [ fmt EXCEPT !.stage = "spawned",
                              !.prepText = m.prepText,
                              !.isWrapped = m.isWrapped,
                              !.maskDict = m.maskDict ]

\* The formatter writes to its output: stdout += data.
NixfmtStdout(data) ==
    /\ fmt.stage = "spawned"
    /\ fmt.stdout = ""
    /\ fmt' = [ fmt EXCEPT !.stdout = @ \o data ]

\* The formatter writes to its error stream: stderr += data.
NixfmtStderr(data) ==
    /\ fmt.stage = "spawned"
    /\ fmt.stderr = ""
    /\ fmt' = [ fmt EXCEPT !.stderr = @ \o data ]

\* The formatter closes with the exit status code: the close handler.
NixfmtClose(code) ==
    /\ fmt.stage = "spawned"
    /\ fmt' = [ fmt EXCEPT
                  !.stage = "closed",
                  !.code = code,
                  !.resolved = @ + 1,
                  !.edits = IF FormatSucceeded(code, fmt.stdout)
                            THEN << [ range |-> FullRange(fmt.text),
                                      newText |-> FinalText(fmt.stdout, fmt.isWrapped,
                                                            fmt.maskDict) ] >>
                            ELSE << >>,
                  !.warning = IF FormatSucceeded(code, fmt.stdout) THEN ""
                              ELSE "nixfmt failed: " \o fmt.stderr ]

\* ------------------------------------------------------ the scanner's run

\* The pieces the documents of a scanner run are built from: the brackets,
\* the comment marker, the comment marker inside a string, a line break,
\* white space, an identifier, a continuation keyword, a statement without
\* terminator, the assignment sign, the terminator, the raw-string delimiter
\* and the shorthand action marker.
ScanFragments ==
    { "(", ")", "{", "}", "[", "]", "#", "\"#\"", "\n", " ", "x", "in",
      "foo = 1", "=", ";", "''", "!", "} x", "_action = {", "_action = {};" }

\* Every concatenation of at most max fragments.
ScanInputs(max) ==
    UNION { { Concat(f) : f \in [1 .. n -> ScanFragments] } : n \in 0 .. max }

\* runStaticHeuristics before its line loop: the lines of the text, the loop
\* variable i, the loop state and the diagnostics returned (none yet).
ScanIdle(text) ==
    [ text |-> text, lines |-> SplitLines(text), i |-> 0, sc |-> ScanInit,
      returned |-> FALSE, diagnostics |-> << >> ]

\* One iteration of the line loop of runStaticHeuristics.
ScanLineStep ==
    /\ ~scan.returned
    /\ scan.i < Len(scan.lines)
    /\ scan' = [ scan EXCEPT !.sc = ScanLine(scan.lines, scan.i, scan.sc),
                             !.i = @ + 1 ]

\* The end of runStaticHeuristics: the loop over the stack, and the return.
ScanReturn ==
    /\ ~scan.returned
    /\ scan.i >= Len(scan.lines)
    /\ scan' = [ scan EXCEPT
                   !.returned = TRUE,
                   !.diagnostics = scan.sc.diagnostics \o Unclosed(scan.sc.stack) ]

\* ------------------------------------------------------ the checker's run

\* The pieces the documents of a checker run are built from: the head of a
\* declaration of every type the checker knows, up to its "=".
DeclarationHeads ==
    { "_let x : int =", "_let n : integer =", "_let f : float =",
      "_let s : string =", "_let b : boolean =",
      "_let e : enum [\"a\", \"b\"] =" }

\* The values, each with its terminator but the last one, which has none.
DeclarationValues ==
    { " 5;", " -5;", " 5.5;", " 5.;", " \"5\" ;", " ''5'';", " true;",
      " \"a\";", " \"c\";", " a;", " ;", " 5", " \"a;b\";" }

CheckFragments == DeclarationHeads \cup DeclarationValues \cup { "\n" }

\* Every concatenation of at most max fragments.
CheckInputs(max) ==
    UNION { { Concat(f) : f \in [1 .. n -> CheckFragments] } : n \in 0 .. max }

\* runTypeChecks before its loop: match.index and letRegex.lastIndex (as
\* positions), the number of matches and the diagnostics collected so far.
CheckIdle(text) ==
    [ text |-> text, index |-> 0, lastIndex |-> 1, matches |-> 0,
      returned |-> FALSE, diagnostics |-> << >> ]

\* One iteration of the while loop of runTypeChecks: the next declaration.
CheckDeclaration ==
    /\ ~chk.returned
    /\ \E m \in { First({ k \in chk.lastIndex .. Len(chk.text) :
                            LetAssignEnd(chk.text, k) > 0 }) } :
          /\ m # 0
          /\ \E e \in { LetAssignEnd(chk.text, m) } :
                chk' = [ chk EXCEPT
                           !.index = m,
                           !.lastIndex = e,
                           !.matches = @ + 1,
                           !.diagnostics = @ \o TypeCheckOne(chk.text, m, e) ]

\* The end of runTypeChecks: letRegex.exec finds nothing more.
CheckReturn ==
    /\ ~chk.returned
    /\ \A k \in chk.lastIndex .. Len(chk.text) : LetAssignEnd(chk.text, k) = 0
    /\ chk' = [ chk EXCEPT !.returned = TRUE ]

\* ------------------------------------------------------------ specifications

vars ==
    << documents, collection, diagnosticTimeout, timers, processes, activated,
       calls, latest, superseded, spawned, checked, source, exitCode, nix, fmt,
       scan, chk >>

orchVars ==
    << documents, collection, diagnosticTimeout, timers, processes, activated,
       calls, latest, superseded, spawned, checked, source, exitCode >>

\* The orchestrator before activate(): empty documents, nothing published.
InitOrch ==
    /\ documents = [ d \in Docs |-> "" ]
    /\ collection = [ d \in Docs |-> << >> ]
    /\ diagnosticTimeout = 0
    /\ timers = {}
    /\ processes = {}
    /\ activated = FALSE
    /\ calls = 0
    /\ latest = [ d \in Docs |-> 0 ]
    /\ superseded = {}
    /\ spawned = << >>
    /\ checked = {}
    /\ source = [ d \in Docs |-> [ call |-> 0, kind |-> "none" ] ]
    /\ exitCode = 0

NixIdle == [ text |-> "", masked |-> "", stage |-> 0, isWrapped |-> FALSE ]

Init ==
    /\ InitOrch
    /\ nix = NixIdle
    /\ fmt = FormatIdle("")
    /\ scan = ScanIdle("")
    /\ chk = CheckIdle("")

Next ==
    \/ Activate
    \/ \E d \in Docs, t \in DocTexts : ChangeTextDocument(d, t)
    \/ \E t \in timers : TimerFire(t)
    \/ \E p \in processes, data \in StderrSamples : ProcessStderr(p, data)
    \/ \E p \in processes, code \in ExitCodes : ProcessClose(p, code)

\* The orchestrator: activation, change events, the debounce timer and the
\* external parser processes.
Spec == Init /\ [][Next]_vars

\* The masking run of runNixCompilerChecks, pass by pass, on every input text.
InitMask ==
    /\ InitOrch
    /\ fmt = FormatIdle("")
    /\ scan = ScanIdle("")
    /\ chk = CheckIdle("")
    /\ \E t \in MaskInputs :
          nix = [ text |-> t, masked |-> t, stage |-> 0, isWrapped |-> FALSE ]

\* One masking pass of runNixCompilerChecks (stage 1 to 4).
MaskStep ==
    /\ nix.stage < 4
    /\ nix' = [ nix EXCEPT !.stage = @ + 1,
                           !.masked = MaskPass(nix.stage + 1, nix.masked) ]
    /\ UNCHANGED << orchVars, fmt, scan, chk >>

\* The auto-wrap that follows the four passes.
WrapStep ==
    /\ nix.stage = 4
    /\ nix' = [ nix EXCEPT !.stage = 5,
                           !.isWrapped = ~TopLevelForm(nix.masked),
                           !.masked = IF TopLevelForm(nix.masked)
                                      THEN nix.masked
                                      ELSE WrapText(nix.masked) ]
    /\ UNCHANGED << orchVars, fmt, scan, chk >>

NextMask == MaskStep \/ WrapStep

SpecMask == InitMask /\ [][NextMask]_vars

\* One format request on every input document.
InitFormat ==
    /\ InitOrch
    /\ nix = NixIdle
    /\ scan = ScanIdle("")
    /\ chk = CheckIdle("")
    /\ \E t \in FormatInputs : fmt = FormatIdle(t)

NextFormat ==
    \/ ProvideFormattingEdits /\ UNCHANGED << orchVars, nix, scan, chk >>
    \/ \E data \in FormatterOutputs(fmt.prepText) :
          NixfmtStdout(data) /\ UNCHANGED << orchVars, nix, scan, chk >>
    \/ NixfmtStderr("error: parse failure")
          /\ UNCHANGED << orchVars, nix, scan, chk >>
    \/ \E code \in ExitCodes :
          NixfmtClose(code) /\ UNCHANGED << orchVars, nix, scan, chk >>

SpecFormat == InitFormat /\ [][NextFormat]_vars

\* One run of runStaticHeuristics on every input document.
InitScan ==
    /\ InitOrch
    /\ nix = NixIdle
    /\ fmt = FormatIdle("")
    /\ chk = CheckIdle("")
    /\ \E t \in ScanInputs(MaxScanFrags) : scan = ScanIdle(t)

NextScan ==
    \/ ScanLineStep /\ UNCHANGED << orchVars, nix, fmt, chk >>
    \/ ScanReturn /\ UNCHANGED << orchVars, nix, fmt, chk >>

SpecScan == InitScan /\ [][NextScan]_vars

\* One run of runTypeChecks on every input document.
InitCheck ==
    /\ InitOrch
    /\ nix = NixIdle
    /\ fmt = FormatIdle("")
    /\ scan = ScanIdle("")
    /\ \E t \in CheckInputs(MaxCheckFrags) : chk = CheckIdle(t)

NextCheck ==
    \/ CheckDeclaration /\ UNCHANGED << orchVars, nix, fmt, scan >>
    \/ CheckReturn /\ UNCHANGED << orchVars, nix, fmt, scan >>

SpecCheck == InitCheck /\ [][NextCheck]_vars

\* The orchestrator when every armed timer eventually fires and every
\* spawned parser process eventually closes.
Fairness ==
    \A c \in 1 .. MaxCalls :
        /\ WF_vars(\E t \in timers : t.id = c /\ TimerFire(t))
        /\ WF_vars(\E p \in processes, code \in ExitCodes :
                      p.call = c /\ ProcessClose(p, code))

\* The inputs of the runs that are checked for progress: one text, one
\* line on the error stream.
LiveTexts == { "{\n  b = 2\n}" }

LiveStderr == { "error: unexpected end of file at (stdin):1:0" }

NextLive ==
    \/ Activate
    \/ \E d \in Docs, t \in LiveTexts : ChangeTextDocument(d, t)
    \/ \E t \in timers : TimerFire(t)
    \/ \E p \in processes, data \in LiveStderr : ProcessStderr(p, data)
    \/ \E p \in processes, code \in ExitCodes : ProcessClose(p, code)

SpecLive == Init /\ [][NextLive]_vars /\ Fairness

\* ------------------------------------------------------------------ properties

\* The step closes the parser process p (a write to the error stream
\* replaces the record of a process, a close removes it).
Closes(p) == p \in processes /\ \A q \in processes' : q.call # p.call

\* The calls whose check has started.
Started == { spawned[i] : i \in 1 .. Len(spawned) }

\* The last diagnostic of a sequence.
Last(seq) == seq[Len(seq)]

\* C1: every change event of a dialect document is a call of
\* scheduleDiagnostics, and when the handler of the event is done the set
\* published for the document is the Scanner's diagnostics followed by the
\* Checker's for the text the event left, the timer armed by the call carries
\* that very set, and the check of the call has not started; a check starts
\* only for a call made in an earlier step.
C1_SyncPublishBeforeCheck ==
    [][ /\ \A d \in DialectDocs :
              documents'[d] # documents[d] => latest'[d] = calls + 1
        /\ \A d \in Docs :
              latest'[d] # latest[d] =>
                  /\ LanguageId(d) = "zen-nix"
                  /\ calls' = calls + 1
                  /\ latest'[d] = calls'
                  /\ collection'[d] = runStaticHeuristics(documents'[d])
                                         \o runTypeChecks(documents'[d])
                  /\ \E t \in timers' :
                        /\ t.id = calls'
                        /\ t.doc = d
                        /\ t.initialDiagnostics = collection'[d]
                  /\ \A i \in 1 .. Len(spawned') : spawned'[i] # calls'
                  /\ \A p \in processes' : p.call # calls'
        /\ \A i \in 1 .. Len(spawned') :
              i > Len(spawned) => spawned'[i] <= calls
      ]_vars

\* C1 happens: a document whose text has findings of both analyses has just
\* been published synchronously and its timer is armed.
C1_Witness ==
    \E d \in DialectDocs :
        /\ source[d] = [ call |-> calls, kind |-> "sync" ]
        /\ runStaticHeuristics(documents[d]) # << >>
        /\ runTypeChecks(documents[d]) # << >>
        /\ collection[d] = runStaticHeuristics(documents[d])
                              \o runTypeChecks(documents[d])
        /\ \E t \in timers : t.id = calls /\ t.doc = d

\* C2: a call of scheduleDiagnostics made while an earlier timer is pending
\* supersedes it, and the check of a superseded call never starts; no check
\* starts twice; the only timer that can be pending is the one of the latest
\* call, so that of all the calls of a burst exactly the last one is neither
\* superseded nor lost: it is pending or its check has started.
C2_SupersededNeverRuns ==
    /\ Started \cap superseded = {}
    /\ \A i, j \in 1 .. Len(spawned) : i # j => spawned[i] # spawned[j]
    /\ \A t \in timers : t.id = calls /\ t.id = diagnosticTimeout
    /\ \A c \in 1 .. calls :
          \/ c \in superseded /\ c < calls
          \/ c \in Started
          \/ \E t \in timers : t.id = c

\* C2 happens: two changes of one document in a burst, one check, for the
\* second change.
C2_Witness ==
    /\ calls = 2
    /\ superseded = { 1 }
    /\ spawned = << 2 >>
    /\ timers = {}
    /\ \E d \in DialectDocs : latest[d] = 2 /\ \A e \in Docs \ { d } : latest[e] = 0

\* C3: whenever a parser process closes, the set of its document becomes the
\* set of that close (the diagnostics the check captured, and at most one
\* more), whatever was published for the document since the check was
\* scheduled: the last publish wins.
C3_LastPublishWins ==
    [][ \A p \in processes :
            Closes(p) =>
                LET n == Len(p.existingDiagnostics)
                IN  /\ Len(collection'[p.doc]) \in { n, n + 1 }
                    /\ SubSeq(collection'[p.doc], 1, n) = p.existingDiagnostics
                    /\ source'[p.doc] = [ call |-> p.call, kind |-> "check" ]
      ]_vars

\* C3 happens: two checks of one document were in flight together, and the
\* check of the older edit closed after the newer edit's publish: the document
\* shows the older edit's diagnostics, which are not those of its text, while
\* the newer check is still in flight.
C3_Witness ==
    \E d \in DialectDocs :
        /\ source[d].kind = "check"
        /\ source[d].call < latest[d]
        /\ \E p \in processes : p.doc = d /\ p.call = latest[d]
        /\ collection[d] # InitialDiagnostics(documents[d])
        /\ Len(collection[d]) = Len(InitialDiagnostics(documents[d]))

\* C4: the set a close publishes is the diagnostics captured at schedule
\* time, followed by exactly one "Syntax Error" diagnostic with the message of
\* the error line if the exit status is nonzero and the error stream has the
\* form "error: <message> at (stdin):<line>:<column>", and by nothing
\* otherwise.
C4_ClosePublishesMerged ==
    [][ \A p \in processes :
            Closes(p) =>
                LET pub == collection'[p.doc]
                    n == Len(p.existingDiagnostics)
                    recognized == exitCode' # 0 /\ ErrMatch(p.stderr).matched
                IN  /\ Len(pub) >= n
                    /\ SubSeq(pub, 1, n) = p.existingDiagnostics
                    /\ recognized =>
                          /\ Len(pub) = n + 1
                          /\ pub[n + 1].message =
                                "Syntax Error: " \o ErrMatch(p.stderr).message
                    /\ ~recognized => Len(pub) = n
      ]_vars

\* C4 happens: the only check closed so far had a nonzero exit status and a
\* recognized error line, and its document shows the captured diagnostics and
\* the syntax error after them.
C4_Witness ==
    \E d \in DialectDocs :
        /\ source[d].kind = "check"
        /\ checked = { source[d].call }
        /\ exitCode # 0
        /\ Len(collection[d]) = Len(InitialDiagnostics(documents[d])) + 1
        /\ Len(collection[d]) > 1
        /\ MatchStr(Last(collection[d]).message, 1, "Syntax Error: ")

\* C5, as the specification states it: every call of scheduleDiagnostics for
\* a document that stays the document's latest call has its check closed and
\* published eventually, whatever happens to the other documents.
C5_EveryDocumentChecked ==
    \A d \in DialectDocs : \A c \in 1 .. MaxCalls :
        (latest[d] = c) ~> (latest[d] # c \/ c \in checked)

\* C5, as the code has it: the timer is one for all documents, so a call is
\* checked and published eventually unless a later call, for this document
\* or for any other, came while its timer was pending.
C5_UnsupersededChecked ==
    \A d \in DialectDocs : \A c \in 1 .. MaxCalls :
        (latest[d] = c) ~> (c \in superseded \/ c \in checked)

\* C5 happens: the change of one document was superseded by the change of
\* another, whose check has closed; the first document's text was never
\* checked.
C5_Witness ==
    \E d, e \in DialectDocs :
        /\ d # e
        /\ latest[d] = 1
        /\ latest[e] = 2
        /\ superseded = { 1 }
        /\ checked = { 2 }
        /\ source[d] = [ call |-> 1, kind |-> "sync" ]
        /\ source[e] = [ call |-> 2, kind |-> "check" ]

\* C9: the diagnostic of a recognized error at line L, column C lies on line
\* min(max(0, L - 1 - w), lineCount - 1) of the document as it is when the
\* process closes, w being 1 for a wrapped text and 0 otherwise, starts at
\* column max(0, C - 1) and is one character wide: its line is a line of the
\* document.
C9_ErrorPositionRemap ==
    [][ \A p \in processes :
            (Closes(p) /\ exitCode' # 0 /\ ErrMatch(p.stderr).matched) =>
                LET m == ErrMatch(p.stderr)
                    w == IF p.isWrapped THEN 1 ELSE 0
                    lineCount == LineCount(documents[p.doc])
                    line == Min({ Max({ 0, m.line - 1 - w }), lineCount - 1 })
                    col == Max({ 0, m.col - 1 })
                IN  /\ Last(collection'[p.doc]).range = << line, col, line, col + 1 >>
                    /\ line \in 0 .. (lineCount - 1)
      ]_vars

\* C9 happens: a check of the three-line text (not wrapped) reported an error
\* on line 3 and closed after the document had become the two-line text: the
\* diagnostic lies on the last line of the document, not on line index 2.
C9_Witness ==
    \E d \in DialectDocs :
        /\ source[d].kind = "check"
        /\ source[d].call < latest[d]
        /\ LineCount(documents[d]) = 2
        /\ collection[d] # << >>
        /\ Last(collection[d]) =
              Diagnostic(1, 0, 1, 1, "Syntax Error: syntax error, unexpected '}'")
        /\ Len(collection[d]) = Len(InitialDiagnostics("{\n  b = 2\n}")) + 1

\* C6: a format request is resolved when the formatter closes, once and not
\* before; it is resolved with no edit exactly when the exit status is
\* nonzero or the output empty, and then the warning carries the error
\* stream; otherwise with one edit, whose range is the whole document.
C6_FormatAllOrNothing ==
    /\ fmt.resolved = (IF fmt.stage = "closed" THEN 1 ELSE 0)
    /\ fmt.stage # "closed" => fmt.edits = << >> /\ fmt.warning = ""
    /\ fmt.stage = "closed" =>
          /\ Len(fmt.edits) \in { 0, 1 }
          /\ Len(fmt.edits) = 0 <=> (fmt.code # 0 \/ fmt.stdout = "")
          /\ Len(fmt.edits) = 0 => fmt.warning = "nixfmt failed: " \o fmt.stderr
          /\ Len(fmt.edits) = 1 =>
                /\ fmt.warning = ""
                /\ fmt.edits[1].range =
                      << 0, 0 >> \o PositionAt(fmt.text, Len(fmt.text))

\* C6 happens: the formatter wrote output and an error text and exited with a
\* nonzero status: no edit, and the warning carries the error text.
C6_Witness ==
    /\ fmt.stage = "closed"
    /\ fmt.resolved = 1
    /\ fmt.code # 0
    /\ fmt.stdout # ""
    /\ fmt.stderr # ""
    /\ fmt.edits = << >>
    /\ fmt.warning = "nixfmt failed: " \o fmt.stderr

\* C7, as the specification states it: after each of the four masking passes
\* of the parse check the masked text is as long as the original text.
C7_MaskKeepsLength ==
    nix.stage \in 1 .. 4 => Len(nix.masked) = Len(nix.text)

\* C8, as the specification states it, in what it says of line breaks: after
\* each of the four masking passes the masked text has as many line breaks as
\* the original text, so that no character after a masked span changes line.
C8_MaskKeepsLineBreaks ==
    nix.stage \in 1 .. 4 => CountNewlines(nix.masked) = CountNewlines(nix.text)

\* Whether no dialect construct occurs in the text: no typed declaration
\* head, context variable, structural node or shorthand action marker.
NoDialectConstruct(text) ==
    \A i \in 1 .. Len(text) :
        /\ LetHeadEnd(text, i) = 0
        /\ VarEnd(text, i) = 0
        /\ NodeEnd(text, i) = 0
        /\ BangEnd(text, i) = 0

\* A format request of a text without dialect construct that the formatter
\* answered with its input, unchanged.
IdentityRoundTrip ==
    /\ fmt.stage = "closed"
    /\ fmt.code = 0
    /\ fmt.stdout = fmt.prepText
    /\ NoDialectConstruct(fmt.text)

\* A line without the two spaces it may start with.
Dedent(line) == IF MatchStr(line, 1, "  ") THEN Sub(line, 3, Len(line) + 1) ELSE line

RECURSIVE JoinLines(_)
JoinLines(lines) ==
    IF Len(lines) = 1 THEN lines[1]
    ELSE lines[1] \o "\n" \o JoinLines(Tail(lines))

\* The lines of the text, each without its first two spaces if it has them,
\* without the white space around the whole, and a line break after it.
Normalized(text) ==
    LET lines == SplitLines(text)
    IN  Trim(JoinLines([ i \in 1 .. Len(lines) |-> Dedent(lines[i]) ])) \o "\n"

\* C10, as the specification states it: with a formatter that returns its
\* input, the edit of a text without dialect construct holds the text itself,
\* wrapped or not.
C10_RoundTrip ==
    IdentityRoundTrip =>
        /\ fmt.maskDict = << >>
        /\ Len(fmt.edits) = 1
        /\ fmt.edits[1].newText = fmt.text

\* C10, as the code has it: no placeholder is introduced; a text that was not
\* wrapped comes back as it is, and a text that was wrapped comes back with
\* the first two spaces of each line and the white space around the whole
\* removed, and one line break at its end.
C10_RoundTripNormalized ==
    IdentityRoundTrip =>
        /\ fmt.maskDict = << >>
        /\ Len(fmt.edits) = 1
        /\ fmt.edits[1].newText =
              IF fmt.isWrapped THEN Normalized(fmt.text) ELSE fmt.text

\* C10 happens: a wrapped text of two lines, the second indented, came back
\* from the round trip without the indentation and with a line break added.
C10_Witness ==
    /\ IdentityRoundTrip
    /\ fmt.isWrapped
    /\ fmt.text = "a = 1;\n  b = 2;"
    /\ fmt.edits = << [ range |-> << 0, 0, 1, 8 >>,
                        newText |-> "a = 1;\nb = 2;\n" ] >>

\* The document that consists of one structural node.
NodeDocument == "(zmdl target)"

\* What the code alone decides for the node document: it is masked to one
\* placeholder and wrapped in the synthetic braces, and if the formatter exits
\* with status 0 and some output, the edit holds the node and a line break.
NodeRoundTripOnSuccess ==
    fmt.text = NodeDocument =>
        /\ fmt.stage # "idle" =>
              /\ fmt.maskDict = << << "__ZEN_NODE_0__", NodeDocument >> >>
              /\ fmt.isWrapped
              /\ fmt.prepText = "{\n__ZEN_NODE_0__\n}"
        /\ (fmt.stage = "closed" /\ fmt.code = 0 /\ fmt.stdout # "") =>
              fmt.edits = << [ range |-> << 0, 0, 0, 13 >>,
                               newText |-> NodeDocument \o "\n" ] >>

\* C11, as the specification states it: the document "(zmdl target)" is
\* masked to a single placeholder, the formatter accepts what it is handed,
\* and the request ends with one edit that holds the same structural node,
\* white space apart.
C11_NodeFormatsToItself ==
    fmt.text = NodeDocument =>
        /\ fmt.stage # "idle" => Len(fmt.maskDict) = 1
        /\ fmt.stage = "closed" =>
              /\ fmt.code = 0
              /\ Len(fmt.edits) = 1
              /\ Trim(fmt.edits[1].newText) = NodeDocument

\* ------------------------------------------------------------ C12 .. C15

\* The stepwise run returns what the function returns.
ScanRunIsFunction ==
    scan.returned => scan.diagnostics = runStaticHeuristics(scan.text)

RECURSIVE BracketsOf(_)
\* The brackets of s, in order, everything else left out.
BracketsOf(s) ==
    IF s = "" THEN ""
    ELSE (IF Ch(s, 1) \in Openers \cup Closers THEN Ch(s, 1) ELSE "")
         \o BracketsOf(Sub(s, 2, Len(s) + 1))

RECURSIVE Cancel(_)
\* s after every adjacent pair of an opener and its closer is taken out, over
\* and over: "" exactly when s is balanced and properly nested.
Cancel(s) ==
    Bind(First({ k \in 1 .. Len(s) - 1 : Sub(s, k, k + 2) \in { "()", "{}", "[]" } }),
         LAMBDA k :
        IF k = 0 THEN s
        ELSE Cancel(Sub(s, 1, k) \o Sub(s, k + 2, Len(s) + 1)))

Balanced(s) == Cancel(BracketsOf(s)) = ""

RECURSIVE CodeOf(_)
\* The lines with every line cut at its first "#".
CodeOf(lines) ==
    IF lines = << >> THEN ""
    ELSE Bind(IndexOf(Head(lines), "#", 1), LAMBDA h :
             (IF h = 0 THEN Head(lines) ELSE Sub(Head(lines), 1, h))
             \o "\n" \o CodeOf(Tail(lines)))

\* Whether the scan returned a diagnostic whose message starts with prefix.
Reports(prefix) ==
    \E k \in 1 .. Len(scan.diagnostics) :
        MatchStr(scan.diagnostics[k].message, 1, prefix)

NoStructural ==
    /\ scan.sc.stack = << >>
    /\ ~Reports("Unexpected closing character")
    /\ ~Reports("Unclosed character")

\* C12, as the specification states it: a document whose brackets are balanced
\* and properly nested leaves the bracket stack empty at the end of the scan
\* and gets neither an 'Unexpected closing character' nor an 'Unclosed
\* character' diagnostic.
C12_BalancedNoStructural ==
    (scan.returned /\ Balanced(scan.text)) => NoStructural

\* C12, amended: the brackets that count are those that are left after every
\* line is cut at its first "#" (in a string or not); if these are balanced
\* and properly nested, the stack ends empty and the scan returns neither an
\* 'Unexpected closing character' nor an 'Unclosed character' diagnostic.
C12_BalancedOutsideComments ==
    (scan.returned /\ Balanced(CodeOf(scan.lines))) => NoStructural

C12_Witness ==
    /\ scan.returned
    /\ Balanced(CodeOf(scan.lines))
    /\ Len(BracketsOf(CodeOf(scan.lines))) >= 2
    /\ IndexOf(scan.text, "#", 1) # 0

\* The 'Unclosed character' diagnostics the scan returned, in order.
UnclosedReported ==
    SelectSeq(scan.diagnostics,
              LAMBDA d : MatchStr(d.message, 1, "Unclosed character"))

\* One 'Unclosed character' diagnostic per entry left on the stack, innermost
\* first, each one character wide at the place where its bracket stands in
\* the document.
OnePerStackEntry ==
    /\ Len(UnclosedReported) = Len(scan.sc.stack)
    /\ \A k \in 1 .. Len(scan.sc.stack) :
          \E e \in { scan.sc.stack[Len(scan.sc.stack) + 1 - k] } :
             /\ Ch(scan.lines[e.line + 1], e.col + 1) = e.char
             /\ UnclosedReported[k].range =
                    << e.line, e.col, e.line, e.col + 1 >>
             /\ UnclosedReported[k].message =
                    "Unclosed character '" \o e.char \o "'."

\* The positions of s that hold a "{" with balanced brackets before it and
\* balanced brackets after it: the one bracket of s that is unmatched.
UnmatchedBraces(s) ==
    { p \in 1 .. Len(s) :
        /\ Ch(s, p) = "{"
        /\ Balanced(Sub(s, 1, p))
        /\ Balanced(Sub(s, p + 1, Len(s) + 1)) }

\* Exactly one 'Unclosed' diagnostic, anchored at position p of s.
OneUnclosedAt(s, p) ==
    \E at \in { PositionAt(s, p - 1) } :
        /\ Len(UnclosedReported) = 1
        /\ UnclosedReported[1].range = << at[1], at[2], at[1], at[2] + 1 >>

\* C13, as the specification states it: one 'Unclosed character' diagnostic
\* for each entry left on the stack, anchored where the bracket was opened,
\* and a document with exactly one unmatched "{" at (L, C) gets exactly one
\* 'Unclosed' diagnostic, anchored at (L, C).
C13_UnclosedPerEntry ==
    scan.returned =>
        /\ OnePerStackEntry
        /\ \A p \in UnmatchedBraces(scan.text) : OneUnclosedAt(scan.text, p)

\* C13, amended: one 'Unclosed character' diagnostic for each entry left on
\* the stack, anchored where the bracket was opened; a document with exactly
\* one unmatched "{" at (L, C), brackets counted after every line is cut at
\* its first "#", gets exactly one 'Unclosed' diagnostic, anchored at (L, C).
C13_UnclosedPerEntryOutsideComments ==
    scan.returned =>
        /\ OnePerStackEntry
        /\ \A p \in UnmatchedBraces(CodeOf(scan.lines)) :
              OneUnclosedAt(CodeOf(scan.lines), p)

C13_Witness ==
    /\ scan.returned
    /\ Len(scan.sc.stack) = 1
    /\ scan.sc.stack[1] = [ char |-> "{", line |-> 1, col |-> 1 ]
    /\ UnmatchedBraces(CodeOf(scan.lines)) # {}

\* The columns (0-based) of cleanLine that hold a "}" with an identifier
\* right after it that is not a continuation keyword.
BraceThenIdentifier(cleanLine) ==
    { k - 1 : k \in { n \in 1 .. Len(cleanLine) :
                        /\ Ch(cleanLine, n) = "}"
                        /\ Ch(cleanLine, n + 1) \in IdChars
                        /\ Sub(cleanLine, n + 1, IdEnd(cleanLine, n + 1))
                               \notin { "in", "then", "else" } } }

\* Whether the scan returned "Expected ';' after '}'." at line i, column c.
ExpectedTerminatorAt(i, c) ==
    \E k \in 1 .. Len(scan.diagnostics) :
        /\ scan.diagnostics[k].message = "Expected ';' after '}'."
        /\ scan.diagnostics[k].range = << i, c, i, c + 1 >>

\* C14, as the specification states it: for a "}" with a bare identifier
\* right after it (as in "}x") that is none of in, then, else, the scan
\* returns "Expected ';' after '}'." anchored at the column of that "}".
C14_ExpectedTerminatorAtBrace ==
    scan.returned =>
        \A i \in 1 .. Len(scan.lines) :
            \A c \in BraceThenIdentifier(StripComment(scan.lines[i])) :
                ExpectedTerminatorAt(i - 1, c)

\* The diagnostics that the iteration of the line loop now taken has added.
AddedByLine ==
    SubSeq(scan'.sc.diagnostics, Len(scan.sc.diagnostics) + 1,
           Len(scan'.sc.diagnostics))

\* Whether the line the iteration now taken looks at is one the claim is
\* about: it has content, is neither inside a raw string nor inside an action
\* block, the array depth after it is 0, it starts with no exempt keyword and
\* not with "}", it holds "=" and does not end in an accepted ending.
UnterminatedStatement(cleanLine, trimmed) ==
    /\ trimmed # ""
    /\ ~scan'.sc.inMultiline
    /\ ~scan.sc.insideActionBlock
    /\ scan'.sc.arrayDepth = 0
    /\ \A kw \in { "let", "in", "with", "inherit", "if", "then", "else", "_let" } :
          ~(MatchStr(trimmed, 1, kw) /\ Ch(trimmed, Len(kw) + 1) \notin WordChars)
    /\ Ch(trimmed, 1) # "}"
    /\ \E k \in 1 .. Len(cleanLine) : Ch(cleanLine, k) = "="
    /\ \A e \in { ";", "{", "[", "(", "''", "=" } :
          ~MatchStr(trimmed, Len(trimmed) - Len(e) + 1, e)

\* Exactly one "Missing ';' at the end of the statement." among the
\* diagnostics added for line i, and it spans the trimmed text of the line.
OneMissingTerminator(i, cleanLine, trimmed) ==
    \E at \in { IndexOf(cleanLine, trimmed, 1) - 1 } :
        SelectSeq(AddedByLine,
                  LAMBDA d : MatchStr(d.message, 1, "Missing ';' at the end"))
          = << [ range |-> << i, at, i, at + Len(trimmed) >>,
                 message |-> "Missing ';' at the end of the statement.",
                 severity |-> "Error" ] >>

\* The document "foo = 1" gets one diagnostic in all, spanning the text: one
\* from the scan and none from the type checks published with it.
FooExample ==
    (scan'.returned /\ scan'.text = "foo = 1") =>
        /\ Len(scan'.diagnostics \o runTypeChecks(scan'.text)) = 1
        /\ scan'.diagnostics[1].range = << 0, 0, 0, 7 >>
        /\ scan'.diagnostics[1].message = "Missing ';' at the end of the statement."

CheckRunIsFunction ==
    chk.returned => chk.diagnostics = runTypeChecks(chk.text)

\* The diagnostics that the iteration of the while loop now taken has added.
AddedByDeclaration ==
    SubSeq(chk'.diagnostics, Len(chk.diagnostics) + 1, Len(chk'.diagnostics))

\* The declaration the iteration now taken has matched: its captures, whether
\* a ";" follows, and VALUE, the text between the "=" and that ";", trimmed.
Declared == LetCaptures(chk'.text, chk'.index)

Terminated == \E k \in chk'.lastIndex .. Len(chk'.text) : Ch(chk'.text, k) = ";"

Value ==
    Trim(Sub(chk'.text, chk'.lastIndex,
             Min({ k \in chk'.lastIndex .. Len(chk'.text) : Ch(chk'.text, k) = ";" })))

\* One or more digits and nothing else.
AllDigits(v) == v # "" /\ \A k \in 1 .. Len(v) : Ch(v, k) \in Digits

\* v with an optional sign taken off.
Unsigned(v) == IF Ch(v, 1) = "-" THEN Sub(v, 2, Len(v) + 1) ELSE v

\* Digits with an optional single decimal point and trailing digits.
DigitsPointDigits(v) ==
    \/ AllDigits(v)
    \/ \E k \in 2 .. Len(v) - 1 :
          /\ Ch(v, k) = "."
          /\ AllDigits(Sub(v, 1, k))
          /\ AllDigits(Sub(v, k + 1, Len(v) + 1))

\* The rule of each type as the specification states it.
SatisfiesStated(type, v) ==
    CASE type = "string" -> MatchStr(v, 1, "\"") \/ MatchStr(v, 1, "''")
      [] type \in { "int", "integer" } -> AllDigits(Unsigned(v))
      [] type = "float" -> DigitsPointDigits(v)
      [] type = "boolean" -> v \in { "true", "false" }

\* The rules with a float that may have a sign, as an integer may.
SatisfiesSigned(type, v) ==
    IF type = "float" THEN DigitsPointDigits(Unsigned(v))
    ELSE SatisfiesStated(type, v)

\* Exactly one type diagnostic was added, and it spans the value v.
OneMismatchSpanning(v) ==
    \E from \in { WsEnd(chk'.text, chk'.lastIndex) - 1 } :
        /\ Len(AddedByDeclaration) = 1
        /\ MatchStr(AddedByDeclaration[1].message, 1, "Type Error: Expected")
        /\ AddedByDeclaration[1].range =
               PositionAt(chk'.text, from) \o PositionAt(chk'.text, from + Len(v))

ScalarTypes == { "string", "int", "integer", "float", "boolean" }

\* The two examples: "= 5;" for an int gives nothing, "= "5";" one diagnostic
\* that spans the quoted value.
IntExamples ==
    /\ (chk'.returned /\ chk'.text = "_let x : int = 5;") => chk'.diagnostics = << >>
    /\ (chk'.returned /\ chk'.text = "_let x : int = \"5\" ;") =>
          /\ Len(chk'.diagnostics) = 1
          /\ chk'.diagnostics[1].range = << 0, 15, 0, 18 >>

\* C16, as the specification states it: a terminated declaration of type
\* string, int, integer, float or boolean adds exactly one type diagnostic
\* spanning the trimmed VALUE when VALUE breaks the rule of its type, and none
\* when VALUE keeps it.
C16_ScalarTypeCheck ==
    [][ /\ (chk'.matches = chk.matches + 1 /\ Terminated) =>
                \E type \in { Declared.varType } :
                    type \in ScalarTypes =>
                        \E v \in { Value } :
                            IF SatisfiesStated(type, v)
                            THEN AddedByDeclaration = << >>
                            ELSE OneMismatchSpanning(v)
        /\ IntExamples ]_vars

\* C16, amended: the same with a float that may begin with "-", and with no
\* diagnostic at all for a declaration whose VALUE is empty.
C16_ScalarTypeCheckOfValue ==
    [][ /\ (chk'.matches = chk.matches + 1 /\ Terminated) =>
                \E type \in { Declared.varType } :
                    type \in ScalarTypes =>
                        \E v \in { Value } :
                            IF v = "" \/ SatisfiesSigned(type, v)
                            THEN AddedByDeclaration = << >>
                            ELSE OneMismatchSpanning(v)
        /\ IntExamples ]_vars

C16_Witness ==
    /\ chk.returned
    /\ chk.text = "\n_let x : int = \"5\" ;"
    /\ Len(chk.diagnostics) = 1
    /\ chk.diagnostics[1].range = << 1, 15, 1, 18 >>

RECURSIVE QuotedLiterals(_)
\* The texts between the first and the second quote of s, between the third
\* and the fourth, and so on, in order.
QuotedLiterals(s) ==
    Bind({ k \in 1 .. Len(s) : Ch(s, k) = "\"" }, LAMBDA q :
        IF Cardinality(q) < 2 THEN << >>
        ELSE Bind(Min(q), LAMBDA a :
             Bind(Min(q \ { a }), LAMBDA b :
                 << Sub(s, a + 1, b) >>
                 \o QuotedLiterals(Sub(s, b + 1, Len(s) + 1)))))

\* v without a quote at its start and without a quote at its end.
Unquoted(v) ==
    Sub(v, IF MatchStr(v, 1, "\"") THEN 2 ELSE 1,
           IF MatchStr(v, Len(v), "\"") THEN Len(v) ELSE Len(v) + 1)

RECURSIVE Listed(_)
\* The options as a diagnostic lists them.
Listed(options) ==
    IF options = << >> THEN ""
    ELSE Head(options)
         \o (IF Len(options) = 1 THEN "" ELSE ", " \o Listed(Tail(options)))

\* Exactly one diagnostic was added; it spans the value v, names it without
\* its quotes and lists the options in their order.
OneInvalidOption(v, options) ==
    /\ Len(AddedByDeclaration) = 1
    /\ \E from \in { WsEnd(chk'.text, chk'.lastIndex) - 1 } :
          AddedByDeclaration[1].range =
              PositionAt(chk'.text, from) \o PositionAt(chk'.text, from + Len(v))
    /\ \E named \in { "Value \"" \o Unquoted(v) \o "\" is not a valid option" } :
          IndexOf(AddedByDeclaration[1].message, named, 1) # 0
    /\ \E list \in { "Valid options: [" \o Listed(options) \o "]" } :
          IndexOf(AddedByDeclaration[1].message, list, 1) # 0

\* C17, as the specification states it: a terminated declaration of type enum
\* is accepted exactly when VALUE without its surrounding quotes is one of
\* the quoted literals of the bracketed list; otherwise it gets exactly one
\* diagnostic that names the value and lists the options in their order.
C17_EnumMembership ==
    [][ (chk'.matches = chk.matches + 1 /\ Terminated
           /\ Declared.varType = "enum") =>
            \E options \in { QuotedLiterals(Declared.enumContent) } :
            \E v \in { Value } :
                IF \E k \in 1 .. Len(options) : options[k] = Unquoted(v)
                THEN AddedByDeclaration = << >>
                ELSE OneInvalidOption(v, options) ]_vars

\* C17, amended: the same for a VALUE that is not empty; a declaration whose
\* VALUE is empty gets no diagnostic.
C17_EnumMembershipOfValue ==
    [][ (chk'.matches = chk.matches + 1 /\ Terminated
           /\ Declared.varType = "enum") =>
            \E options \in { QuotedLiterals(Declared.enumContent) } :
            \E v \in { Value } :
                IF \/ v = ""
                   \/ \E k \in 1 .. Len(options) : options[k] = Unquoted(v)
                THEN AddedByDeclaration = << >>
                ELSE OneInvalidOption(v, options) ]_vars

C17_Witness ==
    /\ chk.returned
    /\ chk.text = "_let e : enum [\"a\", \"b\"] = \"c\";"
    /\ Len(chk.diagnostics) = 1
    /\ chk.diagnostics[1].message =
           "Type Error: Value \"c\" is not a valid option for enum 'e'. Valid options: [a, b]"

\* ------------------------------------------------------------ C18 .. C20

\* The documents for which the step publishes: every publish is recorded in
\* source with its call and its kind.
Published == { d \in Docs : source'[d] # source[d] }

\* C18: every publish, synchronous or of a closing check, sets the diagnostics
\* of exactly one document, the one it was computed for, and leaves the set of
\* every other document as it was; the new set is the computed one alone (the
\* two analyses of the text, or what the check captured and at most one syntax
\* error), whatever the document showed before; no other step changes any set.
C18_PublishReplacesOneDocument ==
    [][ /\ Cardinality(Published) <= 1
        /\ \A d \in Docs \ Published : collection'[d] = collection[d]
        /\ \A d \in Published :
              \/ /\ source'[d] = [ call |-> calls', kind |-> "sync" ]
                 /\ calls' = calls + 1
                 /\ collection'[d] = runStaticHeuristics(documents'[d])
                                        \o runTypeChecks(documents'[d])
              \/ \E p \in processes :
                    /\ Closes(p)
                    /\ p.doc = d
                    /\ source'[d] = [ call |-> p.call, kind |-> "check" ]
                    /\ \/ collection'[d] = p.existingDiagnostics
                       \/ /\ Len(collection'[d]) = Len(p.existingDiagnostics) + 1
                          /\ SubSeq(collection'[d], 1, Len(p.existingDiagnostics))
                                = p.existingDiagnostics
                          /\ MatchStr(Last(collection'[d]).message, 1,
                                      "Syntax Error: ")
      ]_vars

\* C18 happens: the check of one document has closed and published while the
\* other document shows the set of its own, later, synchronous publish.
C18_Witness ==
    \E d, e \in DialectDocs :
        /\ d # e
        /\ source[d].kind = "check"
        /\ source[e].kind = "sync"
        /\ source[e].call > source[d].call
        /\ collection[e] = InitialDiagnostics(documents[e])
        /\ collection[e] # << >>
        /\ collection[d] # << >>
        /\ collection[d] # collection[e]

\* C19: at most one debounce timer is pending, whatever the documents; a call
\* of scheduleDiagnostics leaves exactly the timer it arms, so a timer that
\* was pending is gone, and no other step arms a timer.
C19_OneTimerPending ==
    [][ /\ Cardinality(timers) <= 1
        /\ Cardinality(timers') <= 1
        /\ calls' # calls =>
              /\ \E t \in timers' : timers' = { t } /\ t.id = calls'
              /\ timers \cap timers' = {}
        /\ calls' = calls => timers' \subseteq timers
      ]_vars

\* C19 happens: the timer of one document was pending when another document
\* was scheduled; only the second one's timer is pending.
C19_Witness ==
    \E d, e \in DialectDocs :
        /\ d # e
        /\ latest[d] = 1
        /\ latest[e] = 2
        /\ superseded = { 1 }
        /\ spawned = << >>
        /\ \E t \in timers : timers = { t } /\ t.doc = e /\ t.id = 2

\* C20: a parser process in flight stays in flight, with the document and the
\* diagnostics it was spawned with, through every step but its own close, a
\* change event or a newer schedule or spawn included; and when it closes, the
\* step publishes its set (what it captured and at most one syntax error) for
\* its document and for no other.
C20_SpawnedCheckPublishes ==
    [][ \A p \in processes :
            \/ \E q \in processes' :
                  /\ q.call = p.call
                  /\ q.doc = p.doc
                  /\ q.existingDiagnostics = p.existingDiagnostics
                  /\ p.call \notin checked'
            \/ /\ Closes(p)
               /\ checked' = checked \cup { p.call }
               /\ Published = { p.doc }
               /\ source'[p.doc] = [ call |-> p.call, kind |-> "check" ]
               /\ Len(collection'[p.doc]) >= Len(p.existingDiagnostics)
               /\ SubSeq(collection'[p.doc], 1, Len(p.existingDiagnostics))
                     = p.existingDiagnostics
      ]_vars

\* C20 happens: a check was spawned for a document, the document was edited
\* and the newer check was spawned too, and the older check has closed and
\* published while the newer one is in flight.
C20_Witness ==
    \E d \in DialectDocs :
        /\ spawned = << 1, 2 >>
        /\ checked = { 1 }
        /\ latest[d] = 2
        /\ source[d] = [ call |-> 1, kind |-> "check" ]
        /\ \E p \in processes : p.call = 2 /\ p.doc = d
        /\ collection[d] # InitialDiagnostics(documents[d])

\* ------------------------------------------------------------ C21 .. C24

\* The token a key of the placeholder map begins with: "__ZEN_", the prefix,
\* the number and the closing "__" (the key of a shorthand marker goes on with
\* the synthetic " =" and the brace).
TokenOf(key) == Sub(key, 1, IndexOf(key, "__", 3) + 2)

\* The keys of the placeholder map of the request, in insertion order.
Keys == [ k \in 1 .. Len(fmt.maskDict) |-> fmt.maskDict[k][1] ]

\* The request succeeded.
Restored == fmt.stage = "closed" /\ Len(fmt.edits) = 1

\* The text of the request holds nothing that looks like a placeholder.
PlainSource == IndexOf(fmt.text, "__ZEN_", 1) = 0

\* The request succeeded on an output in which every key of the placeholder
\* map that was written to the formatter occurs as it was written.
KeysPreserved ==
    /\ Restored
    /\ \A k \in 1 .. Len(Keys) :
          IndexOf(fmt.prepText, Keys[k], 1) # 0 => IndexOf(fmt.stdout, Keys[k], 1) # 0

KeysDistinct ==
    \A j, k \in 1 .. Len(Keys) : j # k => Keys[j] # Keys[k]

\* C22, as the specification states it: whatever the text of the request, the
\* keys of the placeholder map differ from one another and none of them
\* occurs in the text, so that on a formatter output equal to its input the
\* restore rewrites what masking inserted and nothing else: the edit holds
\* the text (after the unwrap, if it was wrapped).
C22_KeysNotInSource ==
    /\ KeysDistinct
    /\ \A k \in 1 .. Len(Keys) : IndexOf(fmt.text, Keys[k], 1) = 0
    /\ (Restored /\ fmt.stdout = fmt.prepText) =>
          fmt.edits[1].newText =
              IF fmt.isWrapped THEN Normalized(fmt.text) ELSE fmt.text

\* The first typed-declaration head of the text of the request: its position
\* and the position after it, or 0.
HeadStart == First({ k \in 1 .. Len(fmt.text) : LetHeadEnd(fmt.text, k) > 0 })

HeadStop == LetHeadEnd(fmt.text, HeadStart)

\* The first "=" at or after from at bracket depth 0 outside a double-quoted
\* string, or 0.
AssignAt(s, from) ==
    First({ p \in from .. Len(s) :
              Ch(s, p) = "=" /\ ~Quoted(s, from, p) /\ DepthAt(s, from, p) = 0 })

\* The number of places where lit occurs in s.
Count(s, lit) == Cardinality({ k \in 1 .. Len(s) : MatchStr(s, k, lit) })

\* No later masking pass took the placeholder of a declaration into the text
\* of a placeholder of its own.
Exposed ==
    \A k \in 1 .. Len(fmt.maskDict) : IndexOf(fmt.maskDict[k][2], "__ZEN_LET", 1) = 0

\* What the statement of C23 says of a declaration head at m .. e - 1 whose
\* assignment sign is at p: how it is written to the formatter, and what the
\* edit holds for it.
DeclarationRoundTrip(m, e, p) ==
    \E head \in { Sub(fmt.text, m, e) } :
    \E middle \in { Trim(Sub(fmt.text, e, p)) } :
        /\ IF middle # ""
           THEN /\ Exposed =>
                      IndexOf(fmt.prepText,
                              "__ZEN_LET_S_0__ = " \o middle \o ";\n__ZEN_LET_E_0__ =",
                              1) # 0
                /\ fmt.maskDict[1] = << "__ZEN_LET_S_0__", head >>
                /\ fmt.maskDict[2] = << "__ZEN_LET_E_0__", "=" >>
           ELSE /\ Exposed => IndexOf(fmt.prepText, "__ZEN_LET_0__ =", 1) # 0
                /\ fmt.maskDict[1] = << "__ZEN_LET_0__", head >>
        /\ (KeysPreserved /\ PlainSource) =>
              \E newText \in { fmt.edits[1].newText } :
                  /\ IndexOf(newText,
                             head \o (IF middle # "" THEN " " \o middle ELSE "") \o " =",
                             1) # 0
                  /\ Count(newText, "=") = Count(fmt.text, "=")
                  /\ Count(newText, ";") = Count(fmt.text, ";")

\* C23, as the specification states it, for the first declaration head of the
\* text: the scan from the end of the head stops at the first "=" at depth 0
\* outside a string; a non-blank text between head and "=" makes the head a
\* start placeholder, a synthetic "=", that text, a synthetic ";" and an end
\* placeholder before the "=", a blank one makes it one placeholder before the
\* "="; and the restore of an output that keeps the placeholders gives the
\* head, the text between and one "=", with no synthetic "=" or ";" left.
C23_DeclarationRoundTrip ==
    (fmt.stage # "idle" /\ HeadStart # 0) =>
        \E p \in { AssignAt(fmt.text, HeadStop) } :
            p # 0 => DeclarationRoundTrip(HeadStart, HeadStop, p)

\* The same for the texts in which no other declaration head begins between
\* the first head and its "=".
DeclarationRoundTripApart ==
    (fmt.stage # "idle" /\ HeadStart # 0) =>
        \E p \in { AssignAt(fmt.text, HeadStop) } :
            (/\ p # 0
             /\ \A k \in HeadStop .. p : LetHeadEnd(fmt.text, k) = 0)
               => DeclarationRoundTrip(HeadStart, HeadStop, p)

RECURSIVE Squeeze(_)
\* The text without its white space.
Squeeze(s) ==
    IF s = "" THEN ""
    ELSE (IF Ch(s, 1) \in WsChars THEN "" ELSE Ch(s, 1)) \o Squeeze(Tail(s))

\* The shorthand markers of the text of the request: the positions of a "!"
\* that a "{" follows, white space between them or not.
Markers == { k \in 1 .. Len(fmt.text) : BangEnd(fmt.text, k) > 0 }

\* What the statement of C24 says of the edit: no placeholder of a shorthand
\* marker and no synthetic "=" is left, and every marker is back.
MarkersRestored ==
    \E newText \in { fmt.edits[1].newText } :
        /\ IndexOf(newText, "__ZEN_BANG_", 1) = 0
        /\ Count(newText, "=") = Count(fmt.text, "=")
        /\ Count(newText, "!") = Count(fmt.text, "!")

\* C24, as the specification states it: every shorthand marker is written to
\* the formatter as a placeholder, a synthetic "=" and the brace, and for any
\* formatter output that differs from its input in white space only, the
\* edit holds the markers again, no placeholder and no synthetic "=".
C24_MarkerRoundTrip ==
    (Markers # {} /\ PlainSource /\ fmt.stage # "idle") =>
        /\ Count(fmt.prepText, "__ZEN_BANG_") = Cardinality(Markers)
        /\ \A k \in 1 .. Len(Keys) :
              MatchStr(Keys[k], 1, "__ZEN_BANG_") =>
                  /\ Squeeze(Keys[k]) = TokenOf(Keys[k]) \o "={"
                  /\ Squeeze(fmt.maskDict[k][2]) = "!{"
        /\ (Restored /\ Squeeze(fmt.stdout) = Squeeze(fmt.prepText)) => MarkersRestored

\* The same for the formatter outputs in which every key occurs as it was
\* written, white space included.
MarkerRoundTripVerbatim ==
    (Markers # {} /\ PlainSource /\ KeysPreserved) => MarkersRestored

\* ------------------------------------------------------------ C25 .. C29

\* The line the iteration of the line loop now taken looks at, cut at its
\* first "#".
CleanLine == StripComment(scan.lines[scan.i + 1])

\* The diagnostics of the two closing-brace checks among those the iteration
\* now taken has added.
BraceDiagnostics ==
    SelectSeq(AddedByLine,
              LAMBDA d : d.message \in { "Expected ';' after '}'.",
                                         "Missing ';' after '}'." })

\* Whether the line now looked at is suppressed: inside a raw string after
\* the toggle of the line itself, or inside an action block as the line
\* begins.
Suppressed == scan'.sc.inMultiline \/ scan.sc.insideActionBlock

EntryLines ==
    { l \in 1 .. scan.i : ActionEntry(Trim(StripComment(scan.lines[l]))) }

\* The column (1-based) at which the entry of line l begins: the keyword
\* that "=" follows, or the "!" the line starts with.
EntryColumn(l) ==
    Bind(StripComment(scan.lines[l]), LAMBDA cleanLine :
        Min({ k \in 1 .. Len(cleanLine) :
                \/ \E kw \in { "_action", "_uaction", "_saction" } :
                      /\ MatchStr(cleanLine, k, kw)
                      /\ Ch(cleanLine, WsEnd(cleanLine, k + Len(kw))) = "="
                \/ k = WsEnd(cleanLine, 1) /\ Ch(cleanLine, k) = "!" }))

\* The places << line, column >> (1-based) of the "{" that stand at or after
\* the entry of line l in the lines looked at so far.
BracesAfterEntry(l) ==
    { << m, k >> \in (l .. scan.i) \X (1 .. Len(scan.text)) :
        /\ Ch(StripComment(scan.lines[m]), k) = "{"
        /\ m = l => k >= EntryColumn(l) }

\* The brace that opens the body of the block entered on line l: the first
\* of these places.
BodyBrace(l) ==
    CHOOSE b \in BracesAfterEntry(l) :
        \A c \in BracesAfterEntry(l) : b[1] < c[1] \/ (b[1] = c[1] /\ b[2] <= c[2])

\* Whether that brace has been closed: it has been looked at and is not on
\* the stack any more.
BodyClosed(l) ==
    /\ BracesAfterEntry(l) # {}
    /\ \A n \in 1 .. Len(scan.sc.stack) :
          << scan.sc.stack[n].line + 1, scan.sc.stack[n].col + 1 >> # BodyBrace(l)

\* C26, as the specification states it: the suppression of an action block
\* ends with the block; once the brace that opened the body of the block last
\* entered has been closed, insideActionBlock is false after that line.
C26_SuppressionEndsWithBlock ==
    (EntryLines # {} /\ BodyClosed(Max(EntryLines))) => ~scan.sc.insideActionBlock

\* The same for the blocks whose body opens on the line that enters them
\* and is not closed on it (no closing character stands after the brace):
\* the entry records the depth of the stack with the brace of the body on it.
SuppressionEndsWithOpenedBlock ==
    (/\ EntryLines # {}
     /\ BodyClosed(Max(EntryLines))
     /\ \E b \in { BodyBrace(Max(EntryLines)) } :
           /\ b[1] = Max(EntryLines)
           /\ \A k \in b[2] + 1 .. Len(scan.text) :
                 Ch(StripComment(scan.lines[b[1]]), k) \notin Closers)
       => ~scan.sc.insideActionBlock

\* The scan states after each character of the line the scan looks at next:
\* the state it has before the line, and the state after every prefix of the
\* line, cut at its first "#"; none for a line without content, which the
\* scan passes over.
AfterEachCharacter ==
    IF scan.returned \/ scan.i >= Len(scan.lines) \/ Trim(CleanLine) = ""
    THEN {}
    ELSE { BracketLoop(Sub(CleanLine, 1, j + 1), 1, scan.i, scan.sc) :
             j \in 0 .. Len(CleanLine) }

\* The number of "[" entries on a stack.
OpenArrays(stack) ==
    Cardinality({ n \in 1 .. Len(stack) : stack[n].char = "[" })

\* Whether a closing character has been reported as unexpected.
SomeUnexpected(diagnostics) ==
    \E n \in 1 .. Len(diagnostics) :
        MatchStr(diagnostics[n].message, 1, "Unexpected closing character")

\* C27, as the specification states it: after every character arrayDepth is
\* non-negative and is the number of "[" entries on the bracket stack.
C27_ArrayDepthIsOpenArrays ==
    \A s \in AfterEachCharacter :
        /\ s.arrayDepth >= 0
        /\ s.arrayDepth = OpenArrays(s.stack)

\* C27, amended: after every character arrayDepth is non-negative, and it is
\* the number of "[" entries on the bracket stack as long as no closing
\* character has been unexpected.
C27_ArrayDepthIsOpenArraysIfMatched ==
    \A s \in AfterEachCharacter :
        /\ s.arrayDepth >= 0
        /\ ~SomeUnexpected(s.diagnostics) => s.arrayDepth = OpenArrays(s.stack)

\* C27 happens: an array was opened on the first line and not closed; the
\* scan looks at the second line, "]", with arrayDepth 1 and one "[" on the
\* stack, and after the "]" both are 0.
C27_Witness ==
    /\ scan.text = "[\n]"
    /\ scan.i = 1
    /\ scan.sc.arrayDepth = 1
    /\ OpenArrays(scan.sc.stack) = 1
    /\ \E s \in AfterEachCharacter : s.arrayDepth = 0 /\ s.stack = << >>

\* The "''" delimiters of a line: in every run of quotes, the first and
\* second, the third and fourth, and so on; a quote left over is none.
Delimiters(s) ==
    { k \in 1 .. Len(s) :
        /\ MatchStr(s, k, "''")
        /\ \E j \in 1 .. k :
              /\ Ch(s, j - 1) # "'"
              /\ \A n \in j .. k : Ch(s, n) = "'"
              /\ (k - j) % 2 = 0 }

RECURSIVE DelimitersUpTo(_)
\* The number of delimiters on the first n lines, each cut at its first "#".
DelimitersUpTo(n) ==
    IF n = 0 THEN 0
    ELSE Cardinality(Delimiters(StripComment(scan.lines[n]))) + DelimitersUpTo(n - 1)

\* The statement-shape diagnostics among those the iteration now taken has
\* added: the missing assignment and the missing terminators.
ShapeDiagnostics ==
    SelectSeq(AddedByLine,
              LAMBDA d : \/ d.message = "Missing '=' assignment."
                         \/ MatchStr(d.message, 1, "Missing ';'"))

\* C28: inMultiline is the parity of the number of "''" delimiters on the
\* lines scanned so far, each cut at its first "#", and a line on which
\* inMultiline is true after the toggle of the line itself gets neither a
\* missing-assignment nor a missing-terminator diagnostic.
C28_RawStringParity ==
    [][ /\ scan.sc.inMultiline = (DelimitersUpTo(scan.i) % 2 = 1)
        /\ scan'.sc.inMultiline = (DelimitersUpTo(scan'.i) % 2 = 1)
        /\ (scan'.i = scan.i + 1 /\ scan'.sc.inMultiline) => ShapeDiagnostics = << >>
      ]_vars

\* C28 happens: a raw string was opened on the first line, and the second
\* line, "x", which alone is a statement without assignment, got nothing.
C28_Witness ==
    /\ scan.returned
    /\ scan.text = "''\nx"
    /\ scan.sc.inMultiline
    /\ scan.diagnostics = << >>
    /\ runStaticHeuristics("x") = << Diagnostic(0, 0, 0, 1, "Missing '=' assignment.") >>

\* Whether the closing character char closes the opener open.
ClosesOpener(char, open) ==
    << open, char >> \in { << "(", ")" >>, << "{", "}" >>, << "[", "]" >> }

\* What C29 says of the closing character at position j (1-based) of the
\* line the scan looks at next, for the scan state before it and after it.
ClosingCharacter(j, before, after) ==
    /\ after.stack = SubSeq(before.stack, 1, Max({ 0, Len(before.stack) - 1 }))
    /\ after.diagnostics =
          before.diagnostics
            \o (IF \/ before.stack = << >>
                   \/ ~ClosesOpener(Ch(CleanLine, j), Last(before.stack).char)
                THEN << [ range |-> << scan.i, j - 1, scan.i, j >>,
                          message |-> "Unexpected closing character '"
                                         \o Ch(CleanLine, j) \o "'.",
                          severity |-> "Error" ] >>
                ELSE << >>)

\* C29: every closing character before the first "#" of its line pops one
\* entry of the stack, or none if the stack is empty, and adds an 'Unexpected
\* closing character' diagnostic at its own position exactly when the stack
\* was empty or the entry popped is not its opener; the entry is popped also
\* on a mismatch, and the scan goes on: the line's iteration ends with the
\* stack that the rest of the line's characters leave, at the next line.
C29_ClosingPopsOne ==
    [][ (scan'.i = scan.i + 1 /\ Trim(CleanLine) # "") =>
            /\ \A j \in { k \in 1 .. Len(CleanLine) : Ch(CleanLine, k) \in { ")", "}", "]" } } :
                  ClosingCharacter(j,
                      BracketLoop(Sub(CleanLine, 1, j), 1, scan.i, scan.sc),
                      BracketLoop(Sub(CleanLine, 1, j + 1), 1, scan.i, scan.sc))
            /\ scan'.sc.stack = BracketLoop(CleanLine, 1, scan.i, scan.sc).stack
      ]_vars

\* C29 happens: in "(])" the "]" popped the "(" and was reported, the ")"
\* found the stack empty and was reported, and nothing is left unclosed.
C29_Witness ==
    /\ scan.returned
    /\ scan.text = "(])"
    /\ scan.diagnostics =
          << Diagnostic(0, 1, 0, 2, "Unexpected closing character ']'."),
             Diagnostic(0, 2, 0, 3, "Unexpected closing character ')'.") >>

\* ---------------------------------------------------------------------- C30

\* What C30 says of the declaration the iteration now taken has matched, for
\* a VALUE that ends before position t (0: no terminator): nothing is added
\* when there is no terminator or VALUE is blank, and what is added spans
\* the trimmed VALUE.
ValueBoundedAt(t) ==
    \E text \in { chk'.text } :
    \E added \in { AddedByDeclaration } :
        \/ added = << >>
        \/ \E end \in { t } :
           \E v \in { IF end = 0 THEN "" ELSE Trim(Sub(text, chk'.lastIndex, end)) } :
           \E from \in { WsEnd(text, chk'.lastIndex) - 1 } :
           \E range \in { PositionAt(text, from) \o PositionAt(text, from + Len(v)) } :
               /\ v # ""
               /\ \A n \in 1 .. Len(added) : added[n].range = range

\* C30, as the specification states it: VALUE ends at the first top-level
\* terminator after the "=" of the declaration, a ";" inside brackets or
\* inside a string of the value not being one; a declaration without such a
\* terminator or with a blank VALUE adds no diagnostic.
C30_ValueToTopLevelTerminator ==
    [][ chk'.matches = chk.matches + 1 =>
            ValueBoundedAt(TopLevelTerminator(chk'.text, chk'.lastIndex)) ]_vars

\* C30, amended: VALUE ends at the first ";" after the "=" of the
\* declaration, wherever it stands; a declaration that no ";" follows or
\* whose VALUE is blank adds no diagnostic.
C30_ValueToFirstSemicolon ==
    [][ chk'.matches = chk.matches + 1 =>
            \E text \in { chk'.text } :
            \E semicolons \in { { k \in chk'.lastIndex .. Len(text) :
                                    Ch(text, k) = ";" } } :
                ValueBoundedAt(First(semicolons)) ]_vars

\* C30 happens: the value "a;b" of an int is cut at the ";" inside the
\* string, and the diagnostic spans the two characters before it.
C30_Witness ==
    /\ chk.returned
    /\ chk.text = "_let x : int = \"a;b\";"
    /\ chk.diagnostics =
          << Diagnostic(0, 15, 0, 17, "Type Error: Expected an integer for 'x'.") >>

====
